---------------------------- MODULE Spec2Model ----------------------------
(***************************************************************************)
(* Routing and middleware composition of adonis-framework (TypeScript      *)
(* port): Route, RouterHelper, Group, Domains, Resource and Middleware.    *)
(*                                                                         *)
(* Strings are modelled as sequences of tokens: "/" and "." are tokens of  *)
(* their own, ":id" is a parameter placeholder, every other token is a     *)
(* non-empty run of characters holding neither "/" nor ".".  String        *)
(* concatenation is \o and string equality is equality of sequences.       *)
(*                                                                         *)
(* The collaborators the classes declare but never construct (helpers,     *)
(* util, log, domains) are taken to be bound to an instance of their       *)
(* declared class, and Domains.registeredDomains to start as the empty     *)
(* list; everything else is what the source does.  Callbacks run in strict *)
(* mode (every compiled file starts with "use strict").                    *)
(***************************************************************************)
EXTENDS Integers, Sequences, FiniteSets, TLC

VARIABLES
    heap,         \* route records by object identity
    routes,       \* Route._routes: the registry, a list of references
    activeGroup,  \* Route.activeGroup
    domains,      \* Domains.registeredDomains: compiled domain patterns
    group,        \* the Group object last returned by Route.group
    resource,     \* the Resource object last built by Route.resource
    chain,        \* the middleware chain last composed, and its run
    middlewareStore, \* Middleware.globalMiddleware and Middleware.namedMiddleware
    last          \* the last call: its name, arguments, error and return value

vars == <<heap, routes, activeGroup, domains, group, resource, chain, middlewareStore,
         last>>

----------------------------------------------------------------------------
(* Bounds of the model *)

MaxRoutes == 2
MaxDomains == 1
MaxCallback == 1
MaxExtra == 1
MaxChain == 2
MaxPathLen == 5
MaxGlobal == 2
MaxAttached == 3

----------------------------------------------------------------------------
(* Values *)

Null == <<"<null>">>
Absent == "<absent>"
NoRef == 0

Slash == "/"
Dot == "."

ParamTokens == {":id", ":post_id", ":format"}

IsParam(t) == t \in ParamTokens

ParamName(t) ==
    CASE t = ":id" -> "id"
      [] t = ":post_id" -> "post_id"
      [] t = ":format" -> "format"
      [] OTHER -> t

Truthy(s) == s # Null /\ s # <<>>

alwaysStarts(s, t) == TRUE

startsWith(s, t) == Len(s) > 0 /\ s[1] = t

SeqToSet(s) == {s[i] : i \in 1..Len(s)}

RECURSIVE FilterSeq(_, _)
FilterSeq(s, keep) ==
    IF s = <<>> THEN <<>>
    ELSE IF Head(s) \in keep THEN <<Head(s)>> \o FilterSeq(Tail(s), keep)
         ELSE FilterSeq(Tail(s), keep)

RemoveAt(s, i) == SubSeq(s, 1, i - 1) \o SubSeq(s, i + 1, Len(s))

RECURSIVE Dedup(_)
Dedup(s) ==
    IF s = <<>> THEN <<>>
    ELSE <<Head(s)>> \o Dedup(FilterSeq(Tail(s), SeqToSet(Tail(s)) \ {Head(s)}))

IndexOf(s, x) == CHOOSE i \in 1..Len(s) : s[i] = x /\ \A j \in 1..(i - 1) : s[j] # x

----------------------------------------------------------------------------
(* path-to-regexp as the helper uses it: a compiled pattern is kept as the *)
(* string it was compiled from; test and exec interpret it.  A literal     *)
(* token matches itself, a parameter matches a shortest non-empty run of   *)
(* tokens other than "/", a trailing "/" of the pattern is dropped and the *)
(* path may end in one optional "/".                                       *)

NoMatch == <<"<nomatch>">>

makeRoutePattern(route) == [src |-> route]

RECURSIVE PatternExecFrom(_, _)
PatternExecFrom(p, u) ==
    IF p = <<>> \/ p = <<Slash>>
    THEN IF u = <<>> \/ u = <<Slash>> THEN <<>> ELSE NoMatch
    ELSE IF u = <<>> THEN NoMatch
    ELSE IF IsParam(Head(p))
    THEN LET RECURSIVE shortest(_)
             shortest(k) ==
                 IF k > Len(u) \/ u[k] = Slash THEN NoMatch
                 ELSE LET rest == PatternExecFrom(Tail(p), SubSeq(u, k + 1, Len(u)))
                      IN  IF rest # NoMatch THEN <<SubSeq(u, 1, k)>> \o rest
                          ELSE shortest(k + 1)
         IN  shortest(1)
    ELSE IF Head(p) = Head(u) THEN PatternExecFrom(Tail(p), Tail(u))
    ELSE NoMatch

PatternExec(pattern, urlPath) == PatternExecFrom(pattern.src, urlPath)

PatternTest(pattern, urlPath) == PatternExec(pattern, urlPath) # NoMatch

PatternKeys(pattern) ==
    LET RECURSIVE keysOf(_)
        keysOf(p) ==
            IF p = <<>> THEN <<>>
            ELSE IF IsParam(Head(p)) THEN <<ParamName(Head(p))>> \o keysOf(Tail(p))
            ELSE keysOf(Tail(p))
    IN  keysOf(pattern.src)

----------------------------------------------------------------------------
(* Inputs the calls are made with *)

NullStr == "<null>"

PathCreate == <<Slash, "user", Slash, "create">>
PathId == <<Slash, "user", Slash, ":id">>
PathBare == <<"user">>

Handlers == {<<"UserController", Dot, "show">>}

RouteNames == {<<"user", Dot, "show">>}

Verbs == {"GET", "HEAD", "POST"}

DomainNames == {<<"admin", Dot, "com">>}

Hosts == {<<"admin", Dot, "com">>, <<"www", Dot, "com">>}

GroupNames == {"v1"}

----------------------------------------------------------------------------
(* RouterHelper *)

construct(path, verb, handler, grp) ==
    LET r == IF startsWith(path, Slash) THEN path ELSE <<Slash>> \o path
    IN  [route |-> r,
         verb |-> IF verb.isArray THEN verb.items ELSE <<verb.str>>,
         handler |-> handler,
         pattern |-> makeRoutePattern(r),
         middlewares |-> <<>>,
         name |-> r,
         group |-> grp,
         domain |-> Null,
         matchedVerb |-> Absent]

(* The references of `rs`, in order, whose record passes the scan's filter *)
MatchingRoutes(h, rs, urlPath, verb) ==
    LET RECURSIVE scan(_)
        scan(s) ==
            IF s = <<>> THEN <<>>
            ELSE IF PatternTest(h[Head(s)].pattern, urlPath)
                    /\ verb \in SeqToSet(h[Head(s)].verb)
                 THEN <<Head(s)>> \o scan(Tail(s))
                 ELSE scan(Tail(s))
    IN  scan(rs)

FirstVerbOf(rec, verb) == rec.verb[1]

MatchedVerbOf(rec, verb) == verb

(* A record with a domain makes the scan call route.makeRoutePattern, which *)
(* no record has: the call throws before any record is changed.  Otherwise *)
(* the first match is taken and the verb is written to it, on the shared   *)
(* record.                                                                 *)
LastOf(maps) == maps[Len(maps)]

FirstOf(maps) == maps[1]

returnMatchingRouteToUrl(h, rs, urlPath, verb) ==
    IF \E i \in 1..Len(rs) : Truthy(h[rs[i]].domain)
    THEN [err |-> "TypeError", heap |-> h, ref |-> NoRef]
    ELSE LET maps == MatchingRoutes(h, rs, urlPath, verb)
         IN  IF maps = <<>>
             THEN [err |-> "none", heap |-> h, ref |-> NoRef]
             ELSE [err |-> "none",
                   heap |-> [h EXCEPT ![FirstOf(maps)].matchedVerb =
                                          MatchedVerbOf(h[FirstOf(maps)], verb)],
                   ref |-> FirstOf(maps)]

(* params of the clone: key name -> captured text, a later key of the same *)
(* name overwriting an earlier one                                         *)
ExtractParams(pattern, urlPath) ==
    LET keys == PatternKeys(pattern)
        extracted == PatternExec(pattern, urlPath)
    IN  {<<keys[i], extracted[i]>> : i \in {j \in 1..Len(keys) :
             \A k \in (j + 1)..Len(keys) : keys[k] # keys[j]}}

returnRouteArguments(rec, urlPath) ==
    [tag |-> "route",
     route |-> rec.route,
     verb |-> rec.verb,
     handler |-> rec.handler,
     pattern |-> rec.pattern,
     middlewares |-> rec.middlewares,
     name |-> rec.name,
     group |-> rec.group,
     domain |-> rec.domain,
     matchedVerb |-> rec.matchedVerb,
     params |-> ExtractParams(rec.pattern, urlPath)]

(* encodeURIComponent: "/" and the space are escaped, the other characters *)
(* of the model's strings are kept                                         *)
encodeToken(t) ==
    CASE t = Slash -> "%2F"
      [] t = "a b" -> "a%20b"
      [] OTHER -> t

encodeURIComponent(str) == [i \in 1..Len(str) |-> encodeToken(str[i])]

HasValue(values, key) == \E v \in values : v[1] = key

ValueOf(values, key) == (CHOOSE v \in values : v[1] = key)[2]

(* pathToRegexp.compile(route)(values): a literal is copied, a parameter   *)
(* is replaced by its encoded value; a value that is missing, or whose     *)
(* encoding is empty, throws.                                              *)
RECURSIVE compileRouteToUrl(_, _)
compileRouteToUrl(path, values) ==
    IF path = <<>> THEN [err |-> "none", str |-> <<>>]
    ELSE LET rest == compileRouteToUrl(Tail(path), values)
             key == ParamName(Head(path))
         IN  IF ~IsParam(Head(path))
             THEN [rest EXCEPT !.str = <<Head(path)>> \o @]
             ELSE IF ~HasValue(values, key)
                     \/ encodeURIComponent(ValueOf(values, key)) = <<>>
             THEN [err |-> "TypeError", str |-> <<>>]
             ELSE [rest EXCEPT !.str = encodeURIComponent(ValueOf(values, key)) \o @]

(* `:format(.${formats.join('|.')})${flag}` *)
RECURSIVE joinFormats(_)
joinFormats(formats) ==
    IF formats = <<>> THEN <<>>
    ELSE IF Len(formats) = 1 THEN <<Head(formats)>>
    ELSE <<Head(formats), "|", Dot>> \o joinFormats(Tail(formats))

formatsPattern(formats, strict) ==
    <<":format", "(", Dot>> \o joinFormats(formats) \o <<")">>
    \o (IF strict THEN <<>> ELSE <<"?">>)

(* RouterHelper.addFormats on an array: the first record gets its route    *)
(* extended, then route.makeRoutePattern, which no record has, throws.     *)
addFormats(h, batch, formats, strict) ==
    IF batch = <<>> THEN [err |-> "none", heap |-> h]
    ELSE [err |-> "TypeError",
          heap |-> [h EXCEPT ![batch[1]].route = @ \o formatsPattern(formats, strict)]]

(* RouterHelper.addFormats on one record (not an array): reading .route of *)
(* no record throws; a record gets its route extended, then                *)
(* routes.makeRoutePattern, which no record has, throws.                   *)
addFormatsToRecord(h, ref, formats, strict) ==
    IF ref = NoRef THEN [err |-> "TypeError", heap |-> h]
    ELSE [err |-> "TypeError",
          heap |-> [h EXCEPT ![ref].route = @ \o formatsPattern(formats, strict)]]

(* RouterHelper.prefixRoute: the first record gets its route prefixed,     *)
(* then this.makeRoutePattern throws, `this` being undefined in the        *)
(* callback.                                                               *)
prefixRoute(h, batch, prefix) ==
    LET pre == IF startsWith(prefix, Slash) THEN prefix ELSE <<Slash>> \o prefix
    IN  IF batch = <<>> THEN [err |-> "none", heap |-> h]
        ELSE [err |-> "TypeError",
              heap |-> [h EXCEPT ![batch[1]].route =
                                    IF @ = <<Slash>> THEN pre ELSE pre \o @]]

(* RouterHelper.appendMiddleware: routes is an array of records or one     *)
(* record                                                                  *)
RECURSIVE appendMiddleware(_, _, _)
appendMiddleware(h, target, middlewares) ==
    IF ~target.isArray
    THEN [h EXCEPT ![target.ref].middlewares = @ \o middlewares]
    ELSE IF target.refs = <<>> THEN h
    ELSE appendMiddleware(
            [h EXCEPT ![Head(target.refs)].middlewares = @ \o middlewares],
            [target EXCEPT !.refs = Tail(@)], middlewares)

addDomain(h, batch, domain) ==
    [i \in DOMAIN h |-> IF i \in SeqToSet(batch)
                        THEN [h[i] EXCEPT !.domain = domain]
                        ELSE h[i]]

----------------------------------------------------------------------------
(* Domains *)

DomainsMatch(registered, host) ==
    \E i \in 1..Len(registered) : PatternTest(registered[i], host)

----------------------------------------------------------------------------
(* Object identity.  heap is the list of the live records, a reference is  *)
(* an index in it; after every call the records nothing refers to any more *)
(* are dropped and the rest are numbered in the order of their first use   *)
(* by the registry, the group and the resource.                            *)

NoGroup == [tag |-> "none", routes |-> <<>>]
NoResource == [tag |-> "none", routes |-> <<>>]
EmptyObject == [tag |-> "empty"]
NoReturn == [tag |-> "none"]

Call(op, err) ==
    [op |-> op, err |-> err, urlPath |-> <<>>, verb |-> NullStr, host |-> <<>>,
     name |-> <<>>, methods |-> <<>>, params |-> {}, args |-> NoReturn,
     ret |-> NoReturn]

Renumbered(s, order) == [i \in 1..Len(s) |-> IndexOf(order, s[i])]

Commit(h, rs, g, res) ==
    LET used == rs \o g.routes \o res.routes
        order == Dedup(used)
    IN  IF used = [i \in 1..Len(h) |-> i]
        THEN /\ heap' = h
             /\ routes' = rs
             /\ group' = g
             /\ resource' = res
        ELSE /\ heap' = [i \in 1..Len(order) |-> h[order[i]]]
             /\ routes' = Renumbered(rs, order)
             /\ group' = [g EXCEPT !.routes = Renumbered(g.routes, order)]
             /\ resource' = [res EXCEPT !.routes = Renumbered(res.routes, order)]

(* No middleware chain composed yet.  `suspended` holds the invocation of  *)
(* another request, if any, that waits at a suspension point while this    *)
(* one runs.                                                               *)
NoChain ==
    [status |-> "none", list |-> <<>>, receiver |-> NullStr, terminal |-> NullStr,
     request |-> NullStr, response |-> NullStr,
     gens |-> <<>>, todo |-> <<>>, stack |-> <<>>, log |-> <<>>,
     suspended |-> <<>>]

(* A Middleware object before its method new() has run: it has no          *)
(* constructor, so neither list exists yet                                 *)
NoMiddleware ==
    [initialised |-> FALSE, globalMiddleware |-> <<>>, namedMiddleware |-> {}]

----------------------------------------------------------------------------
(* Route *)

Init ==
    /\ heap = <<>>
    /\ routes = <<>>
    /\ activeGroup = NullStr
    /\ domains = <<>>
    /\ group = NoGroup
    /\ resource = NoResource
    /\ chain = NoChain
    /\ middlewareStore = NoMiddleware
    /\ last = Call("new", "none")

(* Route.route: construct the record and push it on the list `rs` *)
route(h, rs, path, verb, handler, grp) ==
    [heap |-> Append(h, construct(path, verb, handler, grp)),
     routes |-> Append(rs, Len(h) + 1)]

Get(h, rs, path, handler, grp) ==
    route(h, rs, path, [isArray |-> TRUE, items |-> <<"GET", "HEAD">>], handler, grp)

Post(h, rs, path, handler, grp) ==
    route(h, rs, path, [isArray |-> TRUE, items |-> <<"POST">>], handler, grp)

_firstRoute(rs) == IF rs = <<>> THEN NoRef ELSE rs[1]

(* _.last(this.routes) *)
_lastRoute(rs) == IF rs = <<>> THEN NoRef ELSE rs[Len(rs)]

RouteRoute ==
    \E path \in {PathId, PathBare},
       verb \in {[isArray |-> TRUE, items |-> <<"PUT", "PATCH">>],
                 [isArray |-> FALSE, str |-> "DELETE"],
                 [isArray |-> FALSE, str |-> "delete"]},
       handler \in Handlers :
        /\ Len(routes) < MaxRoutes
        /\ LET r == route(heap, routes, path, verb, handler, activeGroup)
           IN  Commit(r.heap, r.routes, group, resource)
        /\ last' = Call("route", "none")
        /\ UNCHANGED <<activeGroup, domains, chain, middlewareStore>>

RouteGet ==
    \E path \in {PathCreate, PathId}, handler \in Handlers :
        /\ Len(routes) < MaxRoutes
        /\ LET r == Get(heap, routes, path, handler, activeGroup)
           IN  Commit(r.heap, r.routes, group, resource)
        /\ last' = Call("get", "none")
        /\ UNCHANGED <<activeGroup, domains, chain, middlewareStore>>

RoutePost ==
    \E path \in {PathCreate, PathId}, handler \in Handlers :
        /\ Len(routes) < MaxRoutes
        /\ LET r == Post(heap, routes, path, handler, activeGroup)
           IN  Commit(r.heap, r.routes, group, resource)
        /\ last' = Call("post", "none")
        /\ UNCHANGED <<activeGroup, domains, chain, middlewareStore>>

(* Route.put, Route.patch, Route.delete, Route.options: each is           *)
(* this.route(route, [VERB], handler)                                      *)
ShorthandVerb ==
    [m \in {"put", "patch", "delete", "options"} |->
        CASE m = "put" -> "PUT"
          [] m = "patch" -> "PATCH"
          [] m = "delete" -> "DELETE"
          [] m = "options" -> "OPTIONS"]

RouteShorthand ==
    \E method \in DOMAIN ShorthandVerb, handler \in Handlers :
        /\ Len(routes) < MaxRoutes
        /\ LET r == route(heap, routes, PathId,
                          [isArray |-> TRUE, items |-> <<ShorthandVerb[method]>>],
                          handler, activeGroup)
           IN  Commit(r.heap, r.routes, group, resource)
        /\ last' = Call(method, "none")
        /\ UNCHANGED <<activeGroup, domains, chain, middlewareStore>>

(* String.prototype.toUpperCase, on the verbs a caller writes *)
toUpperCase(str) ==
    CASE str = "get" -> "GET"
      [] str = "post" -> "POST"
      [] str = "delete" -> "DELETE"
      [] OTHER -> str

MatchVerbs == {<<"get", "post">>, <<"GET">>, <<>>}

(* Route.match: verbs = _.map(verbs, verb => verb.toUpperCase()) *)
RouteMatch ==
    \E verbs \in MatchVerbs, handler \in Handlers :
        /\ Len(routes) < MaxRoutes
        /\ LET r == route(heap, routes, PathId,
                          [isArray |-> TRUE,
                           items |-> [i \in 1..Len(verbs) |-> toUpperCase(verbs[i])]],
                          handler, activeGroup)
           IN  Commit(r.heap, r.routes, group, resource)
        /\ last' = [Call("match", "none") EXCEPT !.methods = verbs]
        /\ UNCHANGED <<activeGroup, domains, chain, middlewareStore>>

RouteAny ==
    \E handler \in Handlers :
        /\ Len(routes) < MaxRoutes
        /\ LET r == route(heap, routes, PathId,
                          [isArray |-> TRUE,
                           items |-> <<"GET", "POST", "PUT", "PATCH", "DELETE",
                                       "OPTIONS">>],
                          handler, activeGroup)
           IN  Commit(r.heap, r.routes, group, resource)
        /\ last' = Call("any", "none")
        /\ UNCHANGED <<activeGroup, domains, chain, middlewareStore>>

(* Route.as: names the last record; with an empty registry there is none *)
RouteAs ==
    \E name \in RouteNames :
        /\ IF _lastRoute(routes) = NoRef
           THEN /\ last' = [Call("as", "TypeError") EXCEPT !.name = name]
                /\ UNCHANGED <<heap, routes, group, resource>>
           ELSE /\ Commit([heap EXCEPT ![_lastRoute(routes)].name = name],
                          routes, group, resource)
                /\ last' = [Call("as", "none") EXCEPT !.name = name]
        /\ UNCHANGED <<activeGroup, domains, chain, middlewareStore>>

(* Util.spread: the first argument when it is an array, else all of them *)
spread(arguments) ==
    IF arguments # <<>> /\ arguments[1].isArray THEN arguments[1].items
    ELSE [i \in 1..Len(arguments) |-> arguments[i].str]

MiddlewareArguments ==
    {<<[isArray |-> FALSE, str |-> "auth"]>>,
     <<[isArray |-> FALSE, str |-> "web"], [isArray |-> FALSE, str |-> "auth"]>>,
     <<[isArray |-> TRUE, items |-> <<"acl", "web">>]>>}

(* the number of middleware attached to the first n records of the heap *)
RECURSIVE Attached(_)
Attached(n) ==
    IF n = 0 THEN 0 ELSE Attached(n - 1) + Len(heap[n].middlewares)

(* the records can take one more call's middleware *)
CanAttach == Attached(Len(heap)) < MaxAttached

(* Route.middleware: on the last record; with an empty registry there is   *)
(* none                                                                    *)
RouteMiddleware ==
    \E arguments \in MiddlewareArguments :
        /\ CanAttach
        /\ IF _lastRoute(routes) = NoRef
           THEN /\ last' = [Call("middleware", "TypeError") EXCEPT
                               !.methods = spread(arguments)]
                /\ UNCHANGED <<heap, routes, group, resource>>
           ELSE /\ Commit(appendMiddleware(heap,
                                [isArray |-> FALSE, ref |-> _lastRoute(routes)],
                                spread(arguments)),
                          routes, group, resource)
                /\ last' = [Call("middleware", "none") EXCEPT
                               !.methods = spread(arguments)]
        /\ UNCHANGED <<activeGroup, domains, chain, middlewareStore>>

(* Route.formats: RouterHelper.addFormats on the last record *)
RouteFormats ==
    \E formats \in {<<"json">>}, strict \in {FALSE} :
        /\ \A i \in 1..Len(routes) : Len(heap[routes[i]].route) < MaxPathLen
        /\ LET r == addFormatsToRecord(heap, _lastRoute(routes), formats, strict)
           IN  /\ Commit(r.heap, routes, group, resource)
               /\ last' = [Call("formats", r.err) EXCEPT !.methods = <<formats>>]
        /\ UNCHANGED <<activeGroup, domains, chain, middlewareStore>>

(* the generator function Route.render makes for a view *)
renderHandler(view) == <<"function*", view>>

(* Route.render: replaces the handler of the last record *)
RouteRender ==
    \E view \in {"home"} :
        /\ IF _lastRoute(routes) = NoRef
           THEN /\ last' = [Call("render", "TypeError") EXCEPT !.name = <<view>>]
                /\ UNCHANGED <<heap, routes, group, resource>>
           ELSE /\ Commit([heap EXCEPT ![_lastRoute(routes)].handler =
                                            renderHandler(view)],
                          routes, group, resource)
                /\ last' = [Call("render", "none") EXCEPT !.name = <<view>>]
        /\ UNCHANGED <<activeGroup, domains, chain, middlewareStore>>

findIndexByNameLast(h, rs, name) ==
    LET hits == {i \in 1..Len(rs) : h[rs[i]].name = name}
    IN  IF hits = {} THEN -1
        ELSE (CHOOSE i \in hits : \A j \in hits : i >= j) - 1

(* _.findIndex(routes, {name}): 0-based, -1 when no record has the name *)
findIndexByName(h, rs, name) ==
    LET hits == {i \in 1..Len(rs) : h[rs[i]].name = name}
    IN  IF hits = {} THEN -1
        ELSE (CHOOSE i \in hits : \A j \in hits : i <= j) - 1

(* Array.prototype.splice(start, 1): a negative start counts from the end *)
splice1(s, start) ==
    LET from == IF start < 0
                THEN (IF Len(s) + start < 0 THEN 0 ELSE Len(s) + start)
                ELSE (IF start > Len(s) THEN Len(s) ELSE start)
    IN  IF from >= Len(s) THEN s ELSE RemoveAt(s, from + 1)

remove(h, rs, name) == splice1(rs, findIndexByName(h, rs, name))

RemoveNames == RouteNames \cup {PathId, <<Slash>> \o PathBare}

RouteRemove ==
    \E name \in RemoveNames :
        /\ Commit(heap, remove(heap, routes, name), group, resource)
        /\ last' = [Call("remove", "none") EXCEPT !.name = name]
        /\ UNCHANGED <<activeGroup, domains, chain, middlewareStore>>

ObjectToStringSize == 15

(* Route.resolve *)
resolve(h, rs, registered, urlPath, verb, host) ==
    LET path == IF DomainsMatch(registered, host) THEN host \o urlPath ELSE urlPath
        found == returnMatchingRouteToUrl(h, rs, path, verb)
    IN  IF found.err # "none"
        THEN [err |-> found.err, heap |-> found.heap, ret |-> NoReturn]
        ELSE IF ObjectToStringSize = 0
        THEN [err |-> "none", heap |-> found.heap, ret |-> EmptyObject]
        ELSE IF found.ref = NoRef
        THEN [err |-> "TypeError", heap |-> found.heap, ret |-> NoReturn]
        ELSE [err |-> "none", heap |-> found.heap,
              ret |-> returnRouteArguments(found.heap[found.ref], path)]

Urls == {PathCreate, <<Slash, "user", Slash, "5">>}

RouteResolve ==
    \E urlPath \in Urls, verb \in Verbs, host \in Hosts :
        LET r == resolve(heap, routes, domains, urlPath, verb, host)
        IN  /\ Commit(r.heap, routes, group, resource)
            /\ last' = [Call("resolve", r.err) EXCEPT
                           !.urlPath = urlPath, !.verb = verb, !.host = host,
                           !.ret = r.ret]
            /\ UNCHANGED <<activeGroup, domains, chain, middlewareStore>>

(* the extensions a request path is given *)
Extensions == {<<>>, <<Dot, "json">>, <<Dot, "xml">>}

(* Route.resolve for a path that may carry an extension *)
RouteResolveFormat ==
    \E e \in Extensions, verb \in {"GET"}, host \in Hosts :
        LET urlPath == PathCreate \o e
            r == resolve(heap, routes, domains, urlPath, verb, host)
        IN  /\ Commit(r.heap, routes, group, resource)
            /\ last' = [Call("resolve", r.err) EXCEPT
                           !.urlPath = urlPath, !.verb = verb, !.host = host,
                           !.ret = r.ret]
            /\ UNCHANGED <<activeGroup, domains, chain, middlewareStore>>

namedRouteLast(h, rs, pattern) ==
    LET hits == {i \in 1..Len(rs) : h[rs[i]].name = pattern}
    IN  IF hits = {} THEN NoRef
        ELSE rs[CHOOSE i \in hits : \A j \in hits : i >= j]

(* _.filter(this.routes, route => route.name === pattern)[0] *)
namedRoute(h, rs, pattern) ==
    LET hits == {i \in 1..Len(rs) : h[rs[i]].name = pattern}
    IN  IF hits = {} THEN NoRef
        ELSE rs[CHOOSE i \in hits : \A j \in hits : i <= j]

(* Route.url *)
url(h, rs, pattern, params) ==
    LET found == namedRoute(h, rs, pattern)
    IN  IF found # NoRef
        THEN compileRouteToUrl(IF Truthy(h[found].domain)
                               THEN h[found].domain \o h[found].route
                               ELSE h[found].route, params)
        ELSE compileRouteToUrl(pattern, params)

StringValue(str) == [tag |-> "string", str |-> str]

UrlPatterns == RouteNames \cup {PathId, <<"user", Slash, ":id">>}

ParamValues == {<<"5">>, <<"a b">>}

ParamSets == {{}} \cup {{<<"id", v>>} : v \in ParamValues \cup {<<>>}}

RouteUrl ==
    \E pattern \in UrlPatterns, params \in ParamSets :
        LET r == url(heap, routes, pattern, params)
        IN  /\ last' = [Call("url", r.err) EXCEPT
                           !.name = pattern, !.params = params,
                           !.ret = IF r.err = "none" THEN StringValue(r.str)
                                   ELSE NoReturn]
            /\ UNCHANGED <<heap, routes, activeGroup, domains, group,
                           resource, chain, middlewareStore>>

(* Route.resolve of the URL that Route.url has just returned *)
RouteResolveUrl ==
    \E verb \in {"GET"}, host \in Hosts :
        /\ last.op = "url"
        /\ last.err = "none"
        /\ LET r == resolve(heap, routes, domains, last.ret.str, verb, host)
           IN  /\ Commit(r.heap, routes, group, resource)
               /\ last' = [Call("resolve", r.err) EXCEPT
                              !.urlPath = last.ret.str, !.verb = verb,
                              !.host = host, !.ret = r.ret]
        /\ UNCHANGED <<activeGroup, domains, chain, middlewareStore>>

(* _.findIndex(this.routes, property), for a property {name} or {handler} *)
findIndexBy(h, rs, key, value) ==
    LET hits == {i \in 1..Len(rs) :
                    IF key = "name" THEN h[rs[i]].name = value
                    ELSE h[rs[i]].handler = value}
    IN  IF hits = {} THEN -1
        ELSE (CHOOSE i \in hits : \A j \in hits : i <= j) - 1

(* Route.getRoute: this.routes[index], undefined for index -1 *)
getRoute(h, rs, key, value) ==
    LET index == findIndexBy(h, rs, key, value)
    IN  IF index = -1 THEN NoRef ELSE rs[index + 1]

RecordValue(ref, rec) == [tag |-> "record", ref |-> ref, record |-> rec]

RouteGetRoute ==
    \E name \in RouteNames \cup {PathId} :
        LET found == getRoute(heap, routes, "name", name)
        IN  /\ last' = [Call("getRoute", "none") EXCEPT
                           !.name = name,
                           !.ret = IF found = NoRef THEN NoReturn
                                   ELSE RecordValue(found, heap[found])]
            /\ UNCHANGED <<heap, routes, activeGroup, domains, group,
                           resource, chain, middlewareStore>>

(* The registrations a group callback makes: each a Route.get(path, handler) *)
Callbacks ==
    UNION {[1..n -> {PathCreate, PathId} \X Handlers] : n \in 0..MaxCallback}

RECURSIVE runCallback(_, _, _, _)
runCallback(h, rs, cb, grp) ==
    IF cb = <<>> THEN [heap |-> h, routes |-> rs]
    ELSE LET r == Get(h, rs, Head(cb)[1], Head(cb)[2], grp)
         IN  runCallback(r.heap, r.routes, Tail(cb), grp)

(* Route.group: the filter callback is a plain function, so `this` is      *)
(* undefined in it: reading this.activeGroup throws as soon as the filter  *)
(* visits a record, and activeGroup is then never reset.                   *)
RouteGroup ==
    \E name \in GroupNames, cb \in Callbacks :
        /\ Len(routes) + Len(cb) <= MaxRoutes
        /\ LET r == runCallback(heap, routes, cb, name)
           IN  IF r.routes # <<>>
               THEN /\ Commit(r.heap, r.routes, group, resource)
                    /\ activeGroup' = name
                    /\ last' = Call("group", "TypeError")
               ELSE /\ Commit(r.heap, r.routes,
                              [tag |-> "group", routes |-> <<>>], resource)
                    /\ activeGroup' = NullStr
                    /\ last' = Call("group", "none")
        /\ UNCHANGED <<domains, chain, middlewareStore>>

(* Route.group called first thing, with a callback that registers nothing *)
RouteGroupFirst ==
    /\ routes = <<>>
    /\ group.tag = "none"
    /\ RouteGroup
    /\ routes' = <<>>

InnerGroupNames == {"admin"}

NestedValue(outer, inner, innerCount, restCount) ==
    [tag |-> "nested", outer |-> outer, inner |-> inner,
     innerCount |-> innerCount, restCount |-> restCount]

(* Route.group(outer, function () { Route.group(inner, cbInner); rest })   *)
(* where rest registers routes with Route.get.  The inner call sets        *)
(* activeGroup to inner, runs cbInner and filters the registry: a record   *)
(* there makes the filter throw, through the outer callback and the outer  *)
(* call.  Otherwise the inner call sets activeGroup to null, the rest of   *)
(* the outer callback registers under that, and the outer filter runs.     *)
RouteGroupNested ==
    \E outer \in GroupNames, inner \in InnerGroupNames,
       cbInner \in Callbacks, rest \in Callbacks :
        /\ Len(routes) + Len(cbInner) + Len(rest) <= MaxRoutes
        /\ LET innerRun == runCallback(heap, routes, cbInner, inner)
               restRun == runCallback(innerRun.heap, innerRun.routes, rest, NullStr)
               args == NestedValue(outer, inner, Len(cbInner), Len(rest))
           IN  IF innerRun.routes # <<>>
               THEN /\ Commit(innerRun.heap, innerRun.routes, group, resource)
                    /\ activeGroup' = inner
                    /\ last' = [Call("group", "TypeError") EXCEPT !.args = args]
               ELSE IF restRun.routes # <<>>
               THEN /\ Commit(restRun.heap, restRun.routes, group, resource)
                    /\ activeGroup' = NullStr
                    /\ last' = [Call("group", "TypeError") EXCEPT !.args = args]
               ELSE /\ Commit(restRun.heap, restRun.routes,
                              [tag |-> "group", routes |-> <<>>], resource)
                    /\ activeGroup' = NullStr
                    /\ last' = [Call("group", "none") EXCEPT !.args = args]
        /\ UNCHANGED <<domains, chain, middlewareStore>>

----------------------------------------------------------------------------
(* Group *)

(* new Group(routes), with records the caller got from Route.getRoute *)
Batches(rs) ==
    {<<rs[i]>> : i \in 1..Len(rs)} \cup (IF Len(rs) > 1 THEN {rs} ELSE {})

GroupNew ==
    \E batch \in Batches(routes) :
        /\ group.tag = "none"
        /\ Commit(heap, routes, [tag |-> "group", routes |-> batch], resource)
        /\ last' = Call("Group", "none")
        /\ UNCHANGED <<activeGroup, domains, chain, middlewareStore>>

(* Group.middleware *)
GroupMiddleware ==
    \E arguments \in MiddlewareArguments :
        /\ group.tag = "group"
        /\ CanAttach
        /\ Commit(appendMiddleware(heap, [isArray |-> TRUE, refs |-> group.routes],
                                   spread(arguments)),
                  routes, group, resource)
        /\ last' = [Call("Group.middleware", "none") EXCEPT
                       !.methods = spread(arguments)]
        /\ UNCHANGED <<activeGroup, domains, chain, middlewareStore>>

Prefixes == {<<"api">>, <<Slash, "v1">>}

GroupPrefix ==
    \E prefix \in Prefixes :
        /\ group.tag = "group"
        /\ \A i \in 1..Len(group.routes) : Len(heap[group.routes[i]].route) < MaxPathLen
        /\ LET r == prefixRoute(heap, group.routes, prefix)
           IN  /\ Commit(r.heap, routes, group, resource)
               /\ last' = [Call("prefix", r.err) EXCEPT !.name = prefix]
        /\ UNCHANGED <<activeGroup, domains, chain, middlewareStore>>

FormatLists == {<<"json">>, <<"json", "html">>}

GroupFormats ==
    \E formats \in FormatLists, strict \in BOOLEAN :
        /\ group.tag = "group"
        /\ \A i \in 1..Len(group.routes) : Len(heap[group.routes[i]].route) < MaxPathLen
        /\ LET r == addFormats(heap, group.routes, formats, strict)
           IN  /\ Commit(r.heap, routes, group, resource)
               /\ last' = [Call("formats", r.err) EXCEPT !.methods = <<formats>>]
        /\ UNCHANGED <<activeGroup, domains, chain, middlewareStore>>

GroupDomain ==
    \E domain \in DomainNames :
        /\ group.tag = "group"
        /\ Len(domains) < MaxDomains
        /\ domains' = Append(domains, makeRoutePattern(domain))
        /\ Commit(addDomain(heap, group.routes, domain), routes, group, resource)
        /\ last' = Call("domain", "none")
        /\ UNCHANGED <<activeGroup, chain, middlewareStore>>

----------------------------------------------------------------------------
(* Resource: a Route of its own (class Resource extends Route), so         *)
(* super.route, super._lastRoute and super.remove act on the resource's    *)
(* own list this.routes, never on the list of the Route that built it.     *)

ResourceNames == {<<"post">>, <<"user">>, <<Slash>>, <<"post", Dot, "comment">>}

Controllers == {[isString |-> TRUE, str |-> <<"PostController">>],
                [isString |-> FALSE, str |-> <<"[object Object]">>]}

ResourceActions ==
    <<"index", "create", "store", "show", "edit", "update", "destroy">>

IdParamOf(word) ==
    CASE word = "post" -> ":post_id"
      [] OTHER -> ":id"

(* pattern.replace(/(\w+)\./g, '$1/:$1_id/').replace(/\/$/, '') *)
RECURSIVE nestSegments(_)
nestSegments(p) ==
    IF Len(p) < 2 THEN p
    ELSE IF p[2] = Dot /\ p[1] \notin {Slash, Dot} /\ ~IsParam(p[1])
    THEN <<p[1], Slash, IdParamOf(p[1]), Slash>> \o nestSegments(Tail(Tail(p)))
    ELSE <<p[1]>> \o nestSegments(Tail(p))

_makePattern(pattern) ==
    LET nested == nestSegments(pattern)
    IN  IF nested # <<>> /\ nested[Len(nested)] = Slash
        THEN SubSeq(nested, 1, Len(nested) - 1)
        ELSE nested

(* String.prototype.replace('/', ''): the first "/" only *)
dropFirstSlash(p) ==
    IF \E i \in 1..Len(p) : p[i] = Slash
    THEN RemoveAt(p, IndexOf(p, Slash))
    ELSE p

_transformKeys(basename, pairKeys) ==
    [i \in 1..Len(pairKeys) |-> basename \o <<Dot>> \o pairKeys[i]]

Digits == <<"0", "1", "2", "3", "4", "5", "6", "7", "8", "9">>

(* _.keys of a string: the indices of its characters (here: of its tokens) *)
keysOfString(str) == [i \in 1..Len(str) |-> <<Digits[i]>>]

(* Resource.as(pairs): renames the records whose name is a transformed key *)
resourceAs(h, res, pairKeys, pairValues) ==
    LET transformed == _transformKeys(res.basename, pairKeys)
        renamed(rec) ==
            IF \E i \in 1..Len(transformed) : transformed[i] = rec.name
            THEN [rec EXCEPT !.name = pairValues[IndexOf(transformed, rec.name)]]
            ELSE rec
    IN  [i \in DOMAIN h |-> IF i \in SeqToSet(res.routes) THEN renamed(h[i]) ELSE h[i]]

(* Resource._registerRoute: super.route pushes the record on this.routes,  *)
(* .as(resourceName) is Resource.as called with a string, and the record   *)
(* returned by super._lastRoute is pushed on this.routes once more.        *)
_registerRoute(h, res, verb, path, handler, name) ==
    LET resourceName == IF res.basename = <<Slash>> \/ res.basename = <<>>
                        THEN name
                        ELSE res.basename \o <<Dot>> \o name
        pushed == route(h, res.routes, path, [isArray |-> TRUE, items |-> verb],
                        handler \o <<Dot>> \o name, NullStr)
        res1 == [res EXCEPT !.routes = pushed.routes]
        h1 == resourceAs(pushed.heap, res1, keysOfString(resourceName),
                         [i \in 1..Len(resourceName) |-> <<resourceName[i]>>])
        registeredRoute == _lastRoute(res1.routes)
    IN  [heap |-> h1,
         resource |-> [res1 EXCEPT !.routes = Append(res1.routes, registeredRoute)]]

ResourceTable ==
    <<[verb |-> <<"GET", "HEAD">>, tail |-> <<>>, action |-> "index"],
      [verb |-> <<"GET", "HEAD">>, tail |-> <<Slash, "create">>, action |-> "create"],
      [verb |-> <<"POST">>, tail |-> <<>>, action |-> "store"],
      [verb |-> <<"GET", "HEAD">>, tail |-> <<Slash, ":id">>, action |-> "show"],
      [verb |-> <<"GET", "HEAD">>, tail |-> <<Slash, ":id", Slash, "edit">>,
       action |-> "edit"],
      [verb |-> <<"PUT", "PATCH">>, tail |-> <<Slash, ":id">>, action |-> "update"],
      [verb |-> <<"DELETE">>, tail |-> <<Slash, ":id">>, action |-> "destroy"]>>

RECURSIVE _buildRoutes(_, _, _)
_buildRoutes(h, res, k) ==
    IF k > Len(ResourceTable) THEN [heap |-> h, resource |-> res]
    ELSE LET row == ResourceTable[k]
             r == _registerRoute(h, res, row.verb, res.pattern \o row.tail,
                                 res.handler, <<row.action>>)
         IN  _buildRoutes(r.heap, r.resource, k + 1)

alwaysString(handler) == TRUE

(* typeof (handler) === 'string' *)
typeofString(handler) == handler.isString

(* new Resource(router, pattern, handler) *)
newResource(h, pattern, handler) ==
    IF ~typeofString(handler)
    THEN [err |-> "InvalidArgumentException", heap |-> h, resource |-> NoResource]
    ELSE LET res == [tag |-> "resource",
                     pattern |-> _makePattern(pattern),
                     handler |-> handler.str,
                     basename |-> dropFirstSlash(pattern),
                     routes |-> <<>>]
             built == _buildRoutes(h, res, 1)
         IN  [err |-> "none", heap |-> built.heap, resource |-> built.resource]

(* Route.resource, for the one resource a run follows *)
RouteResource ==
    \E name \in ResourceNames, controller \in Controllers :
        LET r == newResource(heap, name, controller)
        IN  /\ resource.tag = "none"
            /\ IF r.err = "none"
               THEN Commit(r.heap, routes, group, r.resource)
               ELSE UNCHANGED <<heap, routes, group, resource>>
            /\ last' = [Call("resource", r.err) EXCEPT !.name = name,
                                                       !.args = controller]
            /\ UNCHANGED <<activeGroup, domains, chain, middlewareStore>>

routerRemove(h, registry, own, name) ==
    [registry |-> remove(h, registry, name), own |-> remove(h, own, name)]

(* super.remove(name) in a method of Resource: Route.remove runs on the     *)
(* resource instance and splices its this.routes, the array the            *)
(* constructor gave it, never the router's.                                *)
superRemove(h, registry, own, name) ==
    [registry |-> registry, own |-> remove(h, own, name)]

(* _.filter over this.routes while the predicate removes from this.routes: *)
(* the length is read once, so an index past the shrunken list yields      *)
(* undefined and reading its name throws, leaving the list as spliced.     *)
RECURSIVE filterRoutes(_, _, _, _, _, _, _, _)
filterRoutes(h, registry, arr, index, length, result, transformed, keepListed) ==
    IF index >= length
    THEN [err |-> "none", routes |-> result, registry |-> registry]
    ELSE IF index >= Len(arr)
    THEN [err |-> "TypeError", routes |-> arr, registry |-> registry]
    ELSE LET value == arr[index + 1]
             listed == \E i \in 1..Len(transformed) : transformed[i] = h[value].name
             removed == superRemove(h, registry, arr, h[value].name)
         IN  IF listed = keepListed
             THEN filterRoutes(h, registry, arr, index + 1, length,
                               Append(result, value), transformed, keepListed)
             ELSE filterRoutes(h, removed.registry, removed.own, index + 1, length,
                               result, transformed, keepListed)

only(h, registry, res, methods) ==
    filterRoutes(h, registry, res.routes, 0, Len(res.routes), <<>>,
                 _transformKeys(res.basename, methods), TRUE)

except(h, registry, res, methods) ==
    filterRoutes(h, registry, res.routes, 0, Len(res.routes), <<>>,
                 _transformKeys(res.basename, methods), FALSE)

MethodLists ==
    {<<>>, <<<<"index">>>>, <<<<"index">>, <<"show">>>>,
     <<<<"create">>, <<"store">>, <<"edit">>, <<"update">>, <<"destroy">>>>,
     <<<<"index">>, <<"create">>, <<"store">>, <<"show">>, <<"edit">>,
       <<"update">>, <<"destroy">>>>}

ResourceOnly ==
    \E methods \in MethodLists :
        /\ resource.tag = "resource"
        /\ LET r == only(heap, routes, resource, methods)
           IN  /\ Commit(heap, r.registry, group, [resource EXCEPT !.routes = r.routes])
               /\ last' = [Call("only", r.err) EXCEPT !.methods = methods]
        /\ UNCHANGED <<activeGroup, domains, chain, middlewareStore>>

ResourceExcept ==
    \E methods \in MethodLists :
        /\ resource.tag = "resource"
        /\ LET r == except(heap, routes, resource, methods)
           IN  /\ Commit(heap, r.registry, group, [resource EXCEPT !.routes = r.routes])
               /\ last' = [Call("except", r.err) EXCEPT !.methods = methods]
        /\ UNCHANGED <<activeGroup, domains, chain, middlewareStore>>

(* rename maps, as lists of <<action, new name>> in key order *)
RenameMaps ==
    {<<<<<<"index">>, <<"post", Dot, "list">>>>>>,
     <<<<<<"store">>, <<"save">>>>, <<<<"show">>, <<"view">>>>>>}

RenameValue(pairs) == [tag |-> "rename", pairs |-> pairs]

(* Resource.as(pairs), pairs a plain object *)
ResourceAs ==
    \E pairs \in RenameMaps :
        /\ resource.tag = "resource"
        /\ Commit(resourceAs(heap, resource,
                             [i \in 1..Len(pairs) |-> pairs[i][1]],
                             [i \in 1..Len(pairs) |-> pairs[i][2]]),
                  routes, group, resource)
        /\ last' = [Call("Resource.as", "none") EXCEPT !.args = RenameValue(pairs)]
        /\ UNCHANGED <<activeGroup, domains, chain, middlewareStore>>

MemberPaths == {<<"completed">>, <<>>}

MemberVerbs == {[given |-> FALSE],
                [given |-> TRUE, isArray |-> FALSE, str |-> "POST"],
                [given |-> TRUE, isArray |-> TRUE, items |-> <<"PUT", "PATCH">>]}

verbsOrDefault(verbs) ==
    IF ~verbs.given THEN <<"GET", "HEAD">>
    ELSE IF verbs.isArray THEN verbs.items
    ELSE <<verbs.str>>

neverEmpty(value) == FALSE

(* _.isEmpty(route), for a string *)
isEmpty(value) == value = <<>>

ExtraCount(h, res) ==
    Cardinality({i \in SeqToSet(res.routes) :
        \A k \in 1..Len(ResourceActions) :
            h[i].handler # res.handler \o <<Dot, ResourceActions[k]>>})

ResourceAddMember ==
    \E path \in MemberPaths, verbs \in MemberVerbs :
        /\ resource.tag = "resource"
        /\ ExtraCount(heap, resource) < MaxExtra
        /\ IF isEmpty(path)
           THEN /\ UNCHANGED <<heap, routes, group, resource>>
                /\ last' = [Call("addMember", "InvalidArgumentException")
                               EXCEPT !.name = path, !.args = verbs]
           ELSE /\ LET r == _registerRoute(heap, resource, verbsOrDefault(verbs),
                               resource.pattern \o <<Slash, ":id", Slash>> \o path,
                               resource.handler, path)
                   IN  Commit(r.heap, routes, group, r.resource)
                /\ last' = [Call("addMember", "none") EXCEPT !.name = path,
                                                        !.args = verbs]
        /\ UNCHANGED <<activeGroup, domains, chain, middlewareStore>>

ResourceAddCollection ==
    \E path \in MemberPaths, verbs \in MemberVerbs :
        /\ resource.tag = "resource"
        /\ ExtraCount(heap, resource) < MaxExtra
        /\ IF isEmpty(path)
           THEN /\ UNCHANGED <<heap, routes, group, resource>>
                /\ last' = [Call("addCollection", "InvalidArgumentException")
                               EXCEPT !.name = path, !.args = verbs]
           ELSE /\ LET r == _registerRoute(heap, resource, verbsOrDefault(verbs),
                               resource.pattern \o <<Slash>> \o path,
                               resource.handler, path)
                   IN  Commit(r.heap, routes, group, r.resource)
                /\ last' = [Call("addCollection", "none") EXCEPT !.name = path,
                                                            !.args = verbs]
        /\ UNCHANGED <<activeGroup, domains, chain, middlewareStore>>

(* Resource._addMiddleware: appendMiddleware for each element of routes *)
RECURSIVE _addMiddleware(_, _, _)
_addMiddleware(h, rs, middleware) ==
    IF rs = <<>> THEN h
    ELSE _addMiddleware(
            appendMiddleware(h, [isArray |-> FALSE, ref |-> Head(rs)], middleware),
            Tail(rs), middleware)

(* Resource.middleware, called with names or with one array of names *)
ResourceMiddleware ==
    \E arguments \in MiddlewareArguments :
        /\ resource.tag = "resource"
        /\ CanAttach
        /\ Commit(_addMiddleware(heap, resource.routes, spread(arguments)),
                  routes, group, resource)
        /\ last' = [Call("Resource.middleware", "none") EXCEPT
                       !.methods = spread(arguments)]
        /\ UNCHANGED <<activeGroup, domains, chain, middlewareStore>>

(* Resource._registerMiddlewareViaExpression: for each middleware of the   *)
(* expression, in key order, the records of this.routes whose name is a    *)
(* transformed key of its methods get that middleware                      *)
RECURSIVE _registerMiddlewareViaExpression(_, _, _)
_registerMiddlewareViaExpression(h, res, expression) ==
    IF expression = <<>> THEN h
    ELSE LET middleware == Head(expression)[1]
             methods == Head(expression)[2]
             transformed == _transformKeys(res.basename, methods)
             hits == {i \in 1..Len(res.routes) :
                        \E k \in 1..Len(transformed) :
                            transformed[k] = h[res.routes[i]].name}
             picked == FilterSeq(res.routes, {res.routes[i] : i \in hits})
         IN  _registerMiddlewareViaExpression(
                _addMiddleware(h, picked, <<middleware>>), res, Tail(expression))

Expressions ==
    {<<<<"auth", <<<<"store">>, <<"update">>>>>>>>,
     <<<<"auth", <<<<"index">>>>>>, <<"web", <<<<"index">>, <<"show">>>>>>>>}

ExpressionValue(expression) == [tag |-> "expression", pairs |-> expression]

(* Resource.middleware, called with one plain object *)
ResourceMiddlewareExpression ==
    \E expression \in Expressions :
        /\ resource.tag = "resource"
        /\ CanAttach
        /\ Commit(_registerMiddlewareViaExpression(heap, resource, expression),
                  routes, group, resource)
        /\ last' = [Call("Resource.middleware", "none") EXCEPT
                       !.args = ExpressionValue(expression)]
        /\ UNCHANGED <<activeGroup, domains, chain, middlewareStore>>

----------------------------------------------------------------------------
(* Middleware.compose.  compose returns a generator function; calling it   *)
(* with the terminal step `next` gives a generator whose body, on its      *)
(* first resumption, wraps the list from the right and then delegates to   *)
(* the outermost step with yield*.  A middleware method is a generator     *)
(* function: applying it creates a suspended generator and runs nothing.   *)
(* The bodies are the caller's: "pass" runs, delegates to its next with    *)
(* yield* and runs again; "deny" runs and returns without its next.  The   *)
(* body of the returned function reads this._composeFunction, so it needs  *)
(* the Middleware instance as its receiver; the caller chooses it.  The    *)
(* lodash wrapper runs map and forEachRight at once (lodash 4).            *)

MwEntries ==
    {[isFunction |-> TRUE, fn |-> "pass", instance |-> NullStr,
      method |-> NullStr, parameters |-> <<>>],
     [isFunction |-> TRUE, fn |-> "deny", instance |-> NullStr,
      method |-> NullStr, parameters |-> <<>>],
     [isFunction |-> FALSE, fn |-> NullStr, instance |-> "Pass",
      method |-> "handle", parameters |-> <<"basic">>],
     [isFunction |-> FALSE, fn |-> NullStr, instance |-> "Deny",
      method |-> "handle", parameters |-> <<>>],
     [isFunction |-> FALSE, fn |-> NullStr, instance |-> NullStr,
      method |-> "pass", parameters |-> <<"admin">>]}

MwLists == UNION {[1..n -> MwEntries] : n \in 0..MaxChain}

Receivers == {"Middleware", "undefined"}

Terminals == {"H", Absent}

(* instance[name] for the middleware instances of the model *)
PropertyOf(instance, name) ==
    IF name # "handle" THEN Absent
    ELSE IF instance = "Pass" THEN "pass"
    ELSE "deny"

_composeFunction(middleware) ==
    [instance |-> NullStr, method |-> middleware.fn, parameters |-> <<>>]

_composeObjectBare(middleware) ==
    [instance |-> NullStr,
     method |-> IF middleware.instance # NullStr
                THEN PropertyOf(middleware.instance, middleware.method)
                ELSE middleware.method,
     parameters |-> <<>>]

_composeObject(middleware) ==
    LET instance == middleware.instance
        method == IF instance # NullStr
                  THEN PropertyOf(instance, middleware.method)
                  ELSE middleware.method
    IN  [instance |-> instance, method |-> method,
         parameters |-> middleware.parameters]

composeEntry(middleware) ==
    IF middleware.isFunction THEN _composeFunction(middleware)
    ELSE _composeObject(middleware)

applyToFirst(method, instance, request, response, next, parameters, entry) ==
    [method |-> method, receiver |-> instance, request |-> "request",
     response |-> "response", next |-> next, parameters |-> parameters,
     entry |-> entry, state |-> "suspendedStart"]

(* method.apply(instance, [request, response, next].concat(parameters)) *)
apply(method, instance, request, response, next, parameters, entry) ==
    [method |-> method, receiver |-> instance, request |-> request,
     response |-> response, next |-> next, parameters |-> parameters,
     entry |-> entry, state |-> "suspendedStart"]

(* next = next || noop() *)
terminalGen(terminal) ==
    apply(IF terminal = Absent THEN "noop" ELSE terminal, NullStr,
          NullStr, NullStr, NoRef, <<>>, 0)

forEach(n) == [k \in 1..n |-> k]

(* the positions of the list in the order forEachRight visits them *)
forEachRight(n) == [k \in 1..n |-> n + 1 - k]

(* the loop body: each generator created becomes the next of the following *)
RECURSIVE wrap(_, _, _, _, _)
wrap(composed, order, k, c, gens) ==
    IF k > Len(order) THEN gens
    ELSE LET middleware == composed[order[k]]
         IN  wrap(composed, order, k + 1, c,
                  Append(gens, apply(middleware.method, middleware.instance,
                                     c.request, c.response, Len(gens),
                                     middleware.parameters, order[k])))

DelegatedEach(gens) == [k \in 1..Len(gens) |-> Len(gens) + 1 - k]

(* return yield* next: the generator the loop assigned last *)
Delegated(gens) == <<Len(gens)>>

(* Middleware.compose(middlewareList, request, response)(next).  The       *)
(* invocation for a second request is composed from the list of the first, *)
(* with that request's own request and response objects.                   *)
MiddlewareCompose ==
    \E list \in MwLists, receiver \in Receivers, terminal \in Terminals :
        /\ chain.status = "none"
        /\ chain.suspended # <<>> => list = chain.suspended[1].list
        /\ chain' = [NoChain EXCEPT
                !.status = "composed", !.list = list,
                !.receiver = receiver, !.terminal = terminal,
                !.request = IF chain.suspended = <<>> THEN "request"
                            ELSE "request2",
                !.response = IF chain.suspended = <<>> THEN "response"
                             ELSE "response2",
                !.suspended = chain.suspended]
        /\ last' = Call("compose", "none")
        /\ UNCHANGED <<heap, routes, activeGroup, domains, group, resource,
                       middlewareStore>>

(* first resumption of the composed generator, up to its yield* *)
ChainStart ==
    /\ chain.status = "composed"
    /\ IF chain.list # <<>> /\ chain.receiver # "Middleware"
       THEN /\ chain' = [chain EXCEPT !.status = "failed"]
            /\ last' = Call("chain", "TypeError")
       ELSE LET composed == [i \in 1..Len(chain.list) |-> composeEntry(chain.list[i])]
                gens == wrap(composed, forEachRight(Len(composed)), 1, chain,
                             <<terminalGen(chain.terminal)>>)
            IN  /\ chain' = [chain EXCEPT !.status = "running", !.gens = gens,
                                          !.todo = Delegated(gens)]
                /\ last' = Call("chain", "none")
    /\ UNCHANGED <<heap, routes, activeGroup, domains, group, resource,
                   middlewareStore>>

Top == chain.stack[Len(chain.stack)]

Stay == chain.stack

Pop == SubSeq(chain.stack, 1, Len(chain.stack) - 1)

Running == chain.status = "running" /\ chain.stack # <<>>

(* yield* of a generator that has completed returns at once *)
Enter(stack, gen) ==
    IF chain.gens[gen].state = "completed" THEN stack ELSE Append(stack, gen)

ChainDelegate ==
    /\ chain.status = "running"
    /\ chain.stack = <<>>
    /\ chain.todo # <<>>
    /\ chain' = [chain EXCEPT !.stack = Enter(<<>>, Head(chain.todo)),
                              !.todo = Tail(chain.todo)]
    /\ UNCHANGED <<heap, routes, activeGroup, domains, group, resource,
                   middlewareStore, last>>

ChainReturn ==
    /\ chain.status = "running"
    /\ chain.stack = <<>>
    /\ chain.todo = <<>>
    /\ chain' = [chain EXCEPT !.status = "done"]
    /\ UNCHANGED <<heap, routes, activeGroup, domains, group, resource,
                   middlewareStore, last>>

(* a middleware body up to its first suspension *)
MiddlewareEnter ==
    /\ Running
    /\ chain.gens[Top].entry > 0
    /\ chain.gens[Top].state = "suspendedStart"
    /\ chain' = [chain EXCEPT
            !.gens[Top].state = "entered",
            !.log = Append(@, [entry |-> chain.gens[Top].entry, phase |-> "pre"])]
    /\ UNCHANGED <<heap, routes, activeGroup, domains, group, resource,
                   middlewareStore, last>>

(* a body that passes delegates to its next; one that denies returns *)
MiddlewareNext ==
    /\ Running
    /\ chain.gens[Top].state = "entered"
    /\ IF chain.gens[Top].method = "pass"
       THEN chain' = [chain EXCEPT
                !.gens[Top].state = "delegated",
                !.stack = Enter(chain.stack, chain.gens[Top].next)]
       ELSE chain' = [chain EXCEPT !.gens[Top].state = "completed", !.stack = Pop]
    /\ UNCHANGED <<heap, routes, activeGroup, domains, group, resource,
                   middlewareStore, last>>

(* the rest of a body once its next has completed *)
MiddlewareReturn ==
    /\ Running
    /\ chain.gens[Top].state = "delegated"
    /\ chain' = [chain EXCEPT
            !.gens[Top].state = "completed",
            !.stack = Pop,
            !.log = Append(@, [entry |-> chain.gens[Top].entry, phase |-> "post"])]
    /\ UNCHANGED <<heap, routes, activeGroup, domains, group, resource,
                   middlewareStore, last>>

(* the terminal step; noop has no body *)
TerminalRun ==
    /\ Running
    /\ chain.gens[Top].entry = 0
    /\ chain.gens[Top].state = "suspendedStart"
    /\ chain' = [chain EXCEPT
            !.gens[Top].state = "completed",
            !.stack = Pop,
            !.log = IF chain.gens[Top].method = "noop" THEN @
                    ELSE Append(@, [entry |-> 0, phase |-> "run"])]
    /\ UNCHANGED <<heap, routes, activeGroup, domains, group, resource,
                   middlewareStore, last>>

(* The running invocation waits at a suspension point and the invocation   *)
(* of the other request, composed or not yet, is resumed.                  *)
ChainSwitch ==
    /\ chain.status # "none"
    /\ LET mine == [chain EXCEPT !.suspended = <<>>]
           theirs == IF chain.suspended = <<>> THEN NoChain
                     ELSE chain.suspended[1]
       IN  chain' = [theirs EXCEPT !.suspended = <<mine>>]
    /\ UNCHANGED <<heap, routes, activeGroup, domains, group, resource,
                   middlewareStore, last>>

----------------------------------------------------------------------------
(* Middleware: the global list and the named table.  The table is a plain  *)
(* object: reading a property finds own keys and, failing that, what       *)
(* Object.prototype defines.  A key is a string of tokens, ":" and ","     *)
(* being tokens of their own.                                              *)

Colon == ":"
Comma == ","

Namespaces == {"App/Http/Middleware/Auth", "App/Http/Middleware/Acl"}

MiddlewareNames == {"auth", "acl"}

ObjectPrototypeKeys == {"constructor", "toString"}

InheritedValue == "function () { [native code] }"

HasOwn(object, key) == \E pair \in object : pair[1] = key

(* object[key] *)
Property(object, key) ==
    IF HasOwn(object, key) THEN (CHOOSE pair \in object : pair[1] = key)[2]
    ELSE IF key \in ObjectPrototypeKeys THEN InheritedValue
    ELSE Absent

(* object[key] = value *)
SetProperty(object, key, value) ==
    {pair \in object : pair[1] # key} \cup {<<key, value>>}

(* Middleware.new *)
MiddlewareNew ==
    /\ middlewareStore' = [initialised |-> TRUE, globalMiddleware |-> <<>>,
                      namedMiddleware |-> {}]
    /\ last' = Call("Middleware.new", "none")
    /\ UNCHANGED <<heap, routes, activeGroup, domains, group, resource, chain>>

(* Middleware.register(key, namespace): without a namespace the key is a   *)
(* global middleware                                                       *)
register(m, key, namespace) ==
    IF namespace = Absent
    THEN [m EXCEPT !.globalMiddleware = Append(@, key)]
    ELSE [m EXCEPT !.namedMiddleware = SetProperty(@, key, namespace)]

MiddlewareRegister ==
    \E key \in MiddlewareNames \cup Namespaces, namespace \in Namespaces \cup {Absent} :
        /\ (namespace = Absent) = (key \in Namespaces)
        /\ Len(middlewareStore.globalMiddleware) < MaxGlobal
        /\ IF ~middlewareStore.initialised
           THEN /\ last' = Call("register", "TypeError")
                /\ UNCHANGED middlewareStore
           ELSE /\ middlewareStore' = register(middlewareStore, key, namespace)
                /\ last' = Call("register", "none")
        /\ UNCHANGED <<heap, routes, activeGroup, domains, group, resource, chain>>

(* _.uniq: the first occurrence of each element, in order *)
uniq(array) == Dedup(array)

(* Middleware.global *)
global(m, arrayOfMiddleware) ==
    [m EXCEPT !.globalMiddleware = @ \o uniq(arrayOfMiddleware)]

GlobalLists == UNION {[1..n -> Namespaces] : n \in 1..2}

MiddlewareGlobal ==
    \E arrayOfMiddleware \in GlobalLists :
        /\ Len(middlewareStore.globalMiddleware) < MaxGlobal
        /\ IF ~middlewareStore.initialised
           THEN /\ last' = [Call("global", "TypeError") EXCEPT
                               !.methods = arrayOfMiddleware]
                /\ UNCHANGED middlewareStore
           ELSE /\ middlewareStore' = global(middlewareStore, arrayOfMiddleware)
                /\ last' = [Call("global", "none") EXCEPT
                               !.methods = arrayOfMiddleware]
        /\ UNCHANGED <<heap, routes, activeGroup, domains, group, resource, chain>>

(* String.prototype.split(separator) *)
RECURSIVE split(_, _)
split(str, separator) ==
    IF \A i \in 1..Len(str) : str[i] # separator THEN <<str>>
    ELSE LET at == IndexOf(str, separator)
         IN  <<SubSeq(str, 1, at - 1)>> \o split(SubSeq(str, at + 1, Len(str)), separator)

(* a string of the model that holds one token, as that token; the empty    *)
(* string as ""                                                            *)
Word(str) == IF str = <<>> THEN "" ELSE str[1]

(* Middleware.fetchParams *)
fetchParams(params) ==
    IF params = Absent \/ params = <<>> THEN <<>>
    ELSE LET parts == split(params, Comma)
         IN  [i \in 1..Len(parts) |-> Word(parts[i])]

(* Middleware.formatNamedMiddleware: the reduce over keys *)
RECURSIVE formatNamedMiddleware(_, _, _)
formatNamedMiddleware(m, keys, structured) ==
    IF keys = <<>> THEN [err |-> "none", structured |-> structured]
    ELSE LET tokens == split(Head(keys), Colon)
             middlewareNamespace == Property(m.namedMiddleware, Word(tokens[1]))
         IN  IF middlewareNamespace = Absent
             THEN [err |-> "E_MISSING_NAMED_MIDDLEWARE", structured |-> structured]
             ELSE formatNamedMiddleware(m, Tail(keys),
                      SetProperty(structured, middlewareNamespace,
                                  fetchParams(IF Len(tokens) > 1 THEN tokens[2]
                                              ELSE Absent)))

(* _.keys of a hash, which the model keeps as the sequence of its          *)
(* <<key, value>> pairs in insertion order                                 *)
hashKeys(hash) == [i \in 1..Len(hash) |-> hash[i][1]]

(* hash[item] *)
HashProperty(hash, item) ==
    IF \E i \in 1..Len(hash) : hash[i][1] = item
    THEN hash[CHOOSE i \in 1..Len(hash) : hash[i][1] = item][2]
    ELSE IF item \in ObjectPrototypeKeys THEN InheritedValue
    ELSE Absent

(* Ioc.makeFunc(`${item}.handle`) with func.parameters set *)
makeFunc(item, parameters) ==
    [func |-> <<item, Dot, "handle">>, parameters |-> parameters]

(* Middleware.resolve: the global list is read before it is concatenated,  *)
(* which throws while the list is undefined                                *)
middlewareResolve(m, namedMiddlewareHash, includeGlobal) ==
    IF includeGlobal /\ ~m.initialised
    THEN [err |-> "TypeError", items |-> <<>>]
    ELSE LET finalSet == IF includeGlobal
                         THEN m.globalMiddleware \o hashKeys(namedMiddlewareHash)
                         ELSE hashKeys(namedMiddlewareHash)
         IN  [err |-> "none",
              items |-> [i \in 1..Len(finalSet) |->
                  LET stored == HashProperty(namedMiddlewareHash, finalSet[i])
                  IN  makeFunc(finalSet[i],
                               IF stored = Absent THEN <<>> ELSE stored)]]

ParameterLists == {<<>>, <<"basic">>}

Hashes ==
    {hash \in UNION {[1..n -> Namespaces \X ParameterLists] : n \in 0..2} :
        \A i, j \in 1..Len(hash) : hash[i][1] = hash[j][1] => i = j}

HashValue(pairs, includeGlobal) ==
    [tag |-> "hash", pairs |-> pairs, includeGlobal |-> includeGlobal]

ListValue(items) == [tag |-> "list", items |-> items]

MiddlewareResolve ==
    \E namedMiddlewareHash \in Hashes, includeGlobal \in BOOLEAN :
        LET r == middlewareResolve(middlewareStore, namedMiddlewareHash, includeGlobal)
        IN  /\ last' = [Call("Middleware.resolve", r.err) EXCEPT
                           !.args = HashValue(namedMiddlewareHash, includeGlobal),
                           !.ret = IF r.err = "none" THEN ListValue(r.items)
                                   ELSE NoReturn]
            /\ UNCHANGED <<heap, routes, activeGroup, domains, group, resource, chain,
                           middlewareStore>>

MiddlewareKeys ==
    {<<"auth">>, <<"auth", Colon, "basic">>, <<"acl", Colon, "a", Comma, "b">>,
     <<"constructor">>}

KeyLists == UNION {[1..n -> MiddlewareKeys] : n \in 0..2}

ObjectValue(pairs) == [tag |-> "object", pairs |-> pairs]

MiddlewareFormatNamed ==
    \E keys \in KeyLists :
        /\ IF ~middlewareStore.initialised /\ keys # <<>>
           THEN last' = [Call("formatNamedMiddleware", "TypeError") EXCEPT
                            !.methods = keys]
           ELSE LET r == formatNamedMiddleware(middlewareStore, keys, {})
                IN  last' = [Call("formatNamedMiddleware", r.err) EXCEPT
                                !.methods = keys,
                                !.ret = IF r.err = "none"
                                        THEN ObjectValue(r.structured)
                                        ELSE NoReturn]
        /\ UNCHANGED <<heap, routes, activeGroup, domains, group, resource, chain,
                       middlewareStore>>

----------------------------------------------------------------------------
(* Resolution against a registry built by get, post, group and domain *)

Next ==
    \/ RouteGet
    \/ RoutePost
    \/ RouteGroupFirst
    \/ GroupDomain
    \/ RouteResolve

Spec == Init /\ [][Next]_vars

(* The registry under registration, naming and removal *)

NextRegistry ==
    \/ RouteRoute
    \/ RouteGet
    \/ RouteAs
    \/ RouteRemove
    \/ RouteGroup

SpecRegistry == Init /\ [][NextRegistry]_vars

(* A resource, its filters and its extra routes, beside the registry *)

RouteGetFirst == routes = <<>> /\ RouteGet

NextResource ==
    \/ RouteGetFirst
    \/ RouteResource
    \/ ResourceOnly
    \/ ResourceExcept
    \/ ResourceAddMember
    \/ ResourceAddCollection

SpecResource == Init /\ [][NextResource]_vars

(* Named records, the URLs made from them and their resolution *)

(* new Group(routes) made right after a record has been named *)
GroupNewNamed ==
    /\ last.op = "as"
    /\ last.err = "none"
    /\ GroupNew

NextUrl ==
    \/ RouteGet
    \/ GroupNewNamed
    \/ RouteAs
    \/ GroupDomain
    \/ RouteUrl
    \/ RouteResolveUrl
    \/ RouteGetRoute

SpecUrl == Init /\ [][NextUrl]_vars

(* Groups of registry records: prefix, formats, domain, and resolution *)

NextGroup ==
    \/ RouteGet
    \/ GroupNew
    \/ GroupPrefix
    \/ GroupFormats
    \/ GroupDomain
    \/ RouteResolve

SpecGroup == Init /\ [][NextGroup]_vars

(* Templates given with and without a leading slash, prefixed and given   *)
(* formats                                                                 *)

NextSlash ==
    \/ RouteRoute
    \/ GroupNew
    \/ GroupPrefix
    \/ GroupFormats

SpecSlash == Init /\ [][NextSlash]_vars

(* A resource and the renaming of its records *)

NextRename ==
    \/ RouteGetFirst
    \/ RouteResource
    \/ ResourceAddMember
    \/ ResourceAs
    \/ RouteGetRoute

SpecRename == Init /\ [][NextRename]_vars

(* Formats on a route or a group, and requests with extensions *)

NextFormats ==
    \/ RouteGet
    \/ RouteFormats
    \/ GroupNew
    \/ GroupFormats
    \/ RouteResolveFormat

SpecFormats == Init /\ [][NextFormats]_vars

(* The middleware registry and its resolution for a request *)

NextMwResolve ==
    \/ MiddlewareNew
    \/ MiddlewareRegister
    \/ MiddlewareGlobal
    \/ MiddlewareResolve

SpecMwResolve == Init /\ [][NextMwResolve]_vars

(* Groups, one inside another, and registrations outside them *)

NextNesting ==
    \/ RouteGet
    \/ RouteGroup
    \/ RouteGroupNested

SpecNesting == Init /\ [][NextNesting]_vars

(* Standalone routes beside a resource that is filtered *)

NextLocal ==
    \/ RouteGet
    \/ RouteResource
    \/ ResourceOnly
    \/ ResourceExcept

SpecLocal == Init /\ [][NextLocal]_vars

(* Fluent calls after a registration *)

NextFluent ==
    \/ RouteGet
    \/ RouteAs
    \/ RouteMiddleware
    \/ RouteFormats
    \/ RouteRender

SpecFluent == Init /\ [][NextFluent]_vars

(* Middleware attached to the last record, to a group and to a resource *)

NextAttach ==
    \/ resource.tag = "none" /\ RouteGet
    \/ resource.tag = "none" /\ RouteMiddleware
    \/ resource.tag = "none" /\ GroupNew
    \/ resource.tag = "none" /\ GroupMiddleware
    \/ routes = <<>> /\ RouteResource
    \/ routes = <<>> /\ ResourceMiddleware
    \/ routes = <<>> /\ ResourceMiddlewareExpression

SpecAttach == Init /\ [][NextAttach]_vars

(* Every registration entry point: the registry's, then a resource's *)

NextVerbs ==
    \/ resource.tag = "none" /\ RouteRoute
    \/ resource.tag = "none" /\ RouteGet
    \/ resource.tag = "none" /\ RoutePost
    \/ resource.tag = "none" /\ RouteShorthand
    \/ resource.tag = "none" /\ RouteMatch
    \/ resource.tag = "none" /\ RouteAny
    \/ routes = <<>> /\ RouteResource
    \/ routes = <<>> /\ ResourceAddMember
    \/ routes = <<>> /\ ResourceAddCollection

SpecVerbs == Init /\ [][NextVerbs]_vars

(* The middleware registry *)

NextMiddleware ==
    \/ MiddlewareNew
    \/ MiddlewareRegister
    \/ MiddlewareGlobal
    \/ MiddlewareFormatNamed

SpecMiddleware == Init /\ [][NextMiddleware]_vars

(* One composed chain, run step by step *)

NextMw ==
    \/ MiddlewareCompose
    \/ ChainStart
    \/ ChainDelegate
    \/ MiddlewareEnter
    \/ MiddlewareNext
    \/ MiddlewareReturn
    \/ TerminalRun
    \/ ChainReturn

SpecMw == Init /\ [][NextMw]_vars

(* The caller drives the composed generator until it is done: a step of    *)
(* the chain that can be taken is eventually taken.                        *)

ChainStep ==
    \/ ChainStart
    \/ ChainDelegate
    \/ MiddlewareEnter
    \/ MiddlewareNext
    \/ MiddlewareReturn
    \/ TerminalRun
    \/ ChainReturn

SpecMwFair == SpecMw /\ WF_vars(ChainStep)

(* Two invocations, for two requests, interleaved at their suspensions *)

NextTwo ==
    \/ NextMw
    \/ ChainSwitch

SpecTwo == Init /\ [][NextTwo]_vars

----------------------------------------------------------------------------
(* Properties of resolution *)

(* The path the last resolve matched against: host-prefixed when the host  *)
(* matches a registered domain                                             *)
ResolvedPath ==
    IF DomainsMatch(domains, last.host) THEN last.host \o last.urlPath
    ELSE last.urlPath

(* Registry positions whose pattern matches that path and whose verbs hold *)
(* the requested verb                                                      *)
Candidates ==
    {i \in 1..Len(routes) :
        /\ PatternTest(heap[routes[i]].pattern, ResolvedPath)
        /\ \E k \in 1..Len(heap[routes[i]].verb) : heap[routes[i]].verb[k] = last.verb}

Smallest(S) == CHOOSE i \in S : \A j \in S : i <= j

SameRecord(ret, rec) ==
    /\ ret.route = rec.route
    /\ ret.verb = rec.verb
    /\ ret.handler = rec.handler
    /\ ret.pattern = rec.pattern
    /\ ret.middlewares = rec.middlewares
    /\ ret.name = rec.name
    /\ ret.group = rec.group
    /\ ret.domain = rec.domain

C2_MissReturnsEmpty ==
    (last.op = "resolve" /\ Candidates = {}) =>
        (last.err = "none" /\ last.ret = EmptyObject)

(* C3: a resolve leaves every shared record as it was: no field changed,   *)
(* none added.                                                             *)
C3_ResolveReadOnly ==
    [][(last'.op = "resolve") => (heap' = heap /\ routes' = routes)]_vars

----------------------------------------------------------------------------
(* Properties of the registry *)

(* The registry as the list of its records *)
Registry == [i \in 1..Len(routes) |-> heap[routes[i]]]

(* C7: remove(name) with a name no record carries changes nothing: the     *)
(* registry holds the same records in the same order afterwards.           *)
C7_RemoveAbsentNoOp ==
    [][(last'.op = "remove" /\ findIndexByName(heap, routes, last'.name) = -1)
          => (Registry' = Registry /\ last'.err = "none")]_vars

----------------------------------------------------------------------------
(* Resources *)

ResourceRecords == [i \in 1..Len(resource.routes) |-> heap[resource.routes[i]]]

HasNoDot(name) == \A i \in 1..Len(name) : name[i] # Dot

ExpectedRecord(k, base, controller) ==
    [verb |-> ResourceTable[k].verb,
     route |-> <<Slash>> \o base \o ResourceTable[k].tail,
     handler |-> controller \o <<Dot, ResourceTable[k].action>>,
     name |-> base \o <<Dot, ResourceTable[k].action>>]

(* C8: building a resource with a non-empty, dot-free base name B and a    *)
(* controller C yields exactly seven records, in the order index, create,  *)
(* store, show, edit, update, destroy, each with the tabled verbs and      *)
(* path, the handler C.<action> and the name B.<action>.                   *)
C8_ResourceExpansion ==
    (last.op = "resource" /\ last.err = "none"
        /\ last.name # <<>> /\ last.name # <<Slash>> /\ HasNoDot(last.name))
    => /\ Len(ResourceRecords) = 7
       /\ \A k \in 1..7 :
            LET rec == ResourceRecords[k]
                exp == ExpectedRecord(k, last.name, resource.handler)
            IN  /\ rec.verb = exp.verb
                /\ rec.route = exp.route
                /\ rec.handler = exp.handler
                /\ rec.name = exp.name

ActionOf(rec) == rec.handler[Len(rec.handler)]

ActionsKept == {ActionOf(ResourceRecords[i]) : i \in 1..Len(ResourceRecords)}

MethodsOf(call) == {call.methods[i][1] : i \in 1..Len(call.methods)}

(* C9: only(S) completes and leaves exactly the generated records whose    *)
(* action is in S; except(S) completes and leaves exactly those whose      *)
(* action is not in S; the two results are complementary.                  *)
C9_OnlyExceptComplement ==
    [][/\ (last'.op = "only") =>
            (last'.err = "none" /\ ActionsKept' = ActionsKept \cap MethodsOf(last'))
       /\ (last'.op = "except") =>
            (last'.err = "none" /\ ActionsKept' = ActionsKept \ MethodsOf(last'))]_vars

(* C10: the resource's own list holds each of its records exactly once,    *)
(* and every record of it is a record of the router's registry.            *)
C10_RegistryViewAgrees ==
    (resource.tag = "resource")
    => /\ \A i, j \in 1..Len(resource.routes) :
            (resource.routes[i] = resource.routes[j]) => (i = j)
       /\ SeqToSet(resource.routes) \subseteq SeqToSet(routes)

----------------------------------------------------------------------------
(* Middleware chains *)

Body(middleware) == composeEntry(middleware).method

AllPass == \A i \in 1..Len(chain.list) : Body(chain.list[i]) = "pass"

OnionTrace(n, terminal) ==
    [k \in 1..n |-> [entry |-> k, phase |-> "pre"]]
    \o (IF terminal = Absent THEN <<>> ELSE <<[entry |-> 0, phase |-> "run"]>>)
    \o [k \in 1..n |-> [entry |-> n + 1 - k, phase |-> "post"]]

IsPrefix(s, t) == Len(s) <= Len(t) /\ s = SubSeq(t, 1, Len(s))

(* C4: in a chain whose middleware all invoke next, the steps run in onion *)
(* order: M1 .. Mn start in list order, then the terminal step runs, then  *)
(* the code after each next point runs in the order Mn .. M1; a chain that *)
(* has completed has run all of them.                                      *)
C4_OnionOrdering ==
    AllPass =>
        /\ IsPrefix(chain.log, OnionTrace(Len(chain.list), chain.terminal))
        /\ (chain.status = "done") =>
                (chain.log = OnionTrace(Len(chain.list), chain.terminal))

C4_Witness ==
    /\ chain.status = "done"
    /\ AllPass
    /\ chain.terminal = "H"
    /\ Len(chain.list) = 2
    /\ chain.list[1].isFunction
    /\ ~chain.list[2].isFunction
    /\ Len(chain.log) = 5

Ran(entry) == \E i \in 1..Len(chain.log) : chain.log[i].entry = entry

(* C5: when a middleware of the list does not invoke next, no body of a    *)
(* later middleware and no terminal step is ever run, whether the entry is *)
(* a plain callable or an {instance, method, parameters} object.           *)
C5_ShortCircuit ==
    \A k \in 1..Len(chain.list) :
        (Body(chain.list[k]) # "pass") =>
            /\ ~Ran(0)
            /\ \A j \in (k + 1)..Len(chain.list) : ~Ran(j)

C5_Witness ==
    /\ chain.status = "done"
    /\ Len(chain.list) = 2
    /\ ~chain.list[1].isFunction
    /\ Body(chain.list[1]) = "deny"
    /\ chain.terminal = "H"
    /\ chain.log = <<[entry |-> 1, phase |-> "pre"]>>

----------------------------------------------------------------------------
(* URLs of named records *)

(* C11: the URL Route.url builds for a registered name and values for the  *)
(* template's placeholders resolves, for a verb of that record and any     *)
(* host, to that same record with params equal to the values given.        *)
C11_UrlRoundTrip ==
    [][(/\ last.op = "url"
        /\ last.err = "none"
        /\ namedRoute(heap, routes, last.name) # NoRef
        /\ last'.op = "resolve"
        /\ last'.verb \in SeqToSet(heap[namedRoute(heap, routes, last.name)].verb))
       => (/\ last'.err = "none"
           /\ last'.ret.tag = "route"
           /\ SameRecord(last'.ret, heap[namedRoute(heap, routes, last.name)])
           /\ last'.ret.params = last.params)]_vars

----------------------------------------------------------------------------
(* Domains and patterns *)

HostMatches(domain, host) == PatternTest(makeRoutePattern(domain), host)

(* Registry records with a domain that the last resolve's host, path and   *)
(* verb all match                                                          *)
DomainCandidates ==
    {i \in 1..Len(routes) :
        LET rec == heap[routes[i]]
        IN  /\ Truthy(rec.domain)
            /\ HostMatches(rec.domain, last.host)
            /\ PatternTest(makeRoutePattern(rec.domain \o rec.route),
                           last.host \o last.urlPath)
            /\ last.verb \in SeqToSet(rec.verb)}

(* C12: a record tagged with a domain D is never the result of a resolve   *)
(* whose host does not match D, and a resolve whose host matches D and     *)
(* whose path and verb match the record returns a record.                  *)
C12_DomainIsolation ==
    (last.op = "resolve") =>
        /\ (last.err = "none" /\ last.ret.tag = "route" /\ Truthy(last.ret.domain))
                => HostMatches(last.ret.domain, last.host)
        /\ (DomainCandidates # {})
                => (last.err = "none" /\ last.ret.tag = "route")

ExpectedPattern(rec) ==
    makeRoutePattern(IF Truthy(rec.domain) THEN rec.domain \o rec.route
                     ELSE rec.route)

(* C13: in every reachable state each record's compiled pattern is the     *)
(* compilation of its domain, if it has one, followed by its current path  *)
(* template.                                                               *)
C13_PatternInSync ==
    \A i \in 1..Len(heap) : heap[i].pattern = ExpectedPattern(heap[i])

----------------------------------------------------------------------------
(* The middleware registry *)

BaseName(key) == Word(split(key, Colon)[1])

Registered(name) == HasOwn(middlewareStore.namedMiddleware, name)

(* C14: on an initialised registry formatNamedMiddleware(keys) raises the  *)
(* missing-named-middleware error whenever the base name of some key is    *)
(* not in the named table, and returns normally only when every base name  *)
(* is registered.                                                          *)
C14_MissingNamedMiddleware ==
    (last.op = "formatNamedMiddleware" /\ middlewareStore.initialised) =>
        IF \E i \in 1..Len(last.methods) : ~Registered(BaseName(last.methods[i]))
        THEN last.err = "E_MISSING_NAMED_MIDDLEWARE"
        ELSE last.err = "none"

(* C15: Middleware.global(list) appends only the items of list that the    *)
(* global list does not hold yet, each once: a repeated global(L) changes  *)
(* nothing and the global list never gains a duplicate.                    *)
C15_GlobalIdempotent ==
    [][(last'.op = "global" /\ last'.err = "none") =>
            middlewareStore'.globalMiddleware =
                middlewareStore.globalMiddleware
                \o FilterSeq(Dedup(last'.methods),
                             SeqToSet(last'.methods)
                             \ SeqToSet(middlewareStore.globalMiddleware))]_vars

----------------------------------------------------------------------------
(* Nested resources, failed constructions, member and collection routes *)

(* s1/:s1_id/s2/:s2_id/../sk for the dotted name s1.s2...sk *)
RECURSIVE NestedBase(_)
NestedBase(segments) ==
    IF Len(segments) = 1 THEN segments[1]
    ELSE segments[1] \o <<Slash, IdParamOf(Word(segments[1])), Slash>>
         \o NestedBase(Tail(segments))

(* C16: a resource with a dotted base name s1.s2...sk has the base path    *)
(* s1/:s1_id/s2/:s2_id/../sk without a trailing slash, every generated     *)
(* path starts with it, and every record is named <dotted name>.<action>.  *)
C16_NestedResource ==
    (last.op = "resource" /\ last.err = "none" /\ ~HasNoDot(last.name)) =>
        LET base == NestedBase(split(last.name, Dot))
        IN  /\ resource.pattern = base
            /\ base[Len(base)] # Slash
            /\ \A i \in 1..Len(ResourceRecords) :
                /\ IsPrefix(<<Slash>> \o base, ResourceRecords[i].route)
                /\ ResourceRecords[i].name =
                        last.name \o <<Dot, ActionOf(ResourceRecords[i])>>

(* C17: building a resource with a handler that is not a string fails with *)
(* the invalid-parameter error, and it fails only then; the failed call    *)
(* creates no record and leaves the registry as it was.                    *)
C17_NonStringHandler ==
    [][(last'.op = "resource") =>
        /\ (last'.err = "InvalidArgumentException") = ~last'.args.isString
        /\ (~last'.args.isString) =>
                (heap' = heap /\ routes' = routes /\ resource' = resource)]_vars

C17_Witness ==
    /\ last.op = "resource"
    /\ ~last.args.isString
    /\ last.err = "InvalidArgumentException"
    /\ Len(routes) = 1
    /\ resource.tag = "none"

GivenVerbs(verbs) ==
    IF ~verbs.given THEN <<"GET", "HEAD">>
    ELSE IF verbs.isArray THEN verbs.items
    ELSE <<verbs.str>>

ExtraTemplate(op, base, path) ==
    IF op = "addMember" THEN <<Slash>> \o base \o <<Slash, ":id", Slash>> \o path
    ELSE <<Slash>> \o base \o <<Slash>> \o path

(* C18: addMember(path, verbs) and addCollection(path, verbs) append       *)
(* exactly one record, with template {base}/:id/{path} or {base}/{path},   *)
(* handler {controller}.{path}, name {basename}.{path} and the given verbs *)
(* (GET, HEAD when omitted), to the resource's list and to the registry,   *)
(* and change no existing record.                                          *)
C18_MemberAndCollection ==
    [][(last'.op \in {"addMember", "addCollection"} /\ last'.err = "none") =>
        /\ Len(resource'.routes) = Len(resource.routes) + 1
        /\ SubSeq(ResourceRecords', 1, Len(resource.routes)) = ResourceRecords
        /\ LET rec == ResourceRecords'[Len(resource'.routes)]
           IN  /\ rec.route = ExtraTemplate(last'.op, resource.pattern, last'.name)
               /\ rec.handler = resource.handler \o <<Dot>> \o last'.name
               /\ rec.name = resource.basename \o <<Dot>> \o last'.name
               /\ rec.verb = GivenVerbs(last'.args)
        /\ Len(routes') = Len(routes) + 1
        /\ SubSeq(Registry', 1, Len(routes)) = Registry
        /\ routes'[Len(routes')] = resource'.routes[Len(resource'.routes)]]_vars

(* C19: addMember and addCollection with an empty path fail with the       *)
(* invalid-parameter error and register nothing: the resource's list, the  *)
(* registry and every record are as before the call.                       *)
C19_EmptyMemberPath ==
    [][(last'.op \in {"addMember", "addCollection"} /\ last'.name = <<>>) =>
        /\ last'.err = "InvalidArgumentException"
        /\ heap' = heap
        /\ resource' = resource
        /\ routes' = routes]_vars

C19_Witness ==
    /\ last.op \in {"addMember", "addCollection"}
    /\ last.name = <<>>
    /\ last.err = "InvalidArgumentException"
    /\ resource.tag = "resource"
    /\ Len(routes) = 1

----------------------------------------------------------------------------
(* Lookup by name *)

NamedPositions(x) == {i \in 1..Len(routes) : heap[routes[i]].name = x}

(* The template Route.url is to compile for x *)
UrlTemplate(x) ==
    IF NamedPositions(x) = {} THEN x
    ELSE LET rec == heap[routes[Smallest(NamedPositions(x))]]
         IN  IF Truthy(rec.domain) THEN rec.domain \o rec.route ELSE rec.route

(* C20: Route.url(x, params) compiles the domain and template of the first *)
(* record named x in registration order, and x itself only when no record  *)
(* has that name; getRoute returns the first match as well; registering or *)
(* naming a record never removes or replaces a record of equal name.       *)
C20_UrlLooksUpByName ==
    [][/\ (last'.op = "url") =>
            LET compiled == compileRouteToUrl(UrlTemplate(last'.name), last'.params)
            IN  /\ last'.err = compiled.err
                /\ (compiled.err = "none") => (last'.ret = StringValue(compiled.str))
       /\ (last'.op = "getRoute") =>
            IF NamedPositions(last'.name) = {} THEN last'.ret = NoReturn
            ELSE /\ last'.ret.tag = "record"
                 /\ last'.ret.ref = routes[Smallest(NamedPositions(last'.name))]
       /\ (last'.op = "get") =>
            /\ Len(routes') = Len(routes) + 1
            /\ SubSeq(Registry', 1, Len(routes)) = Registry
       /\ (last'.op = "as" /\ last'.err = "none") =>
            /\ Len(routes') = Len(routes)
            /\ SubSeq(Registry', 1, Len(routes) - 1)
                    = SubSeq(Registry, 1, Len(routes) - 1)]_vars

C20_Witness ==
    /\ last.op = "url"
    /\ last.err = "none"
    /\ NamedPositions(last.name) = {1, 2}
    /\ heap[routes[1]].route = PathCreate
    /\ heap[routes[2]].route = PathId
    /\ last.ret = StringValue(PathCreate)

----------------------------------------------------------------------------
(* Route.group *)

(* C21: Route.group(name, cb) returns a Group whose batch is exactly the   *)
(* records registered while cb ran, each tagged with group = name.         *)
C21_GroupBatch ==
    [][(last'.op = "group") =>
            /\ last'.err = "none"
            /\ group'.tag = "group"
            /\ group'.routes = SubSeq(routes', Len(routes) + 1, Len(routes'))
            /\ \A i \in (Len(routes) + 1)..Len(routes') :
                    heap'[routes'[i]].group \in GroupNames
            /\ activeGroup' = NullStr]_vars

----------------------------------------------------------------------------
(* Verbs *)

IsUpperCase(str) == toUpperCase(str) = str

(* C22: every record, whichever entry point registered it, holds a         *)
(* non-empty list of verbs that are all uppercase.                         *)
C22_VerbInvariant ==
    \A i \in DOMAIN heap :
        /\ heap[i].verb # <<>>
        /\ \A k \in 1..Len(heap[i].verb) : IsUpperCase(heap[i].verb[k])

----------------------------------------------------------------------------
(* Leading slash *)

(* C23: after any registrations, group prefixes and format additions,      *)
(* every record's path template starts with '/'.                           *)
C23_LeadingSlash ==
    \A i \in DOMAIN heap :
        /\ heap[i].route # <<>>
        /\ Head(heap[i].route) = Slash

C23_Witness ==
    /\ last.op = "prefix"
    /\ last.name = <<"api">>
    /\ \E i \in 1..Len(routes) :
            heap[routes[i]].route = <<Slash, "api", Slash>> \o PathBare

----------------------------------------------------------------------------
(* Two requests *)

Invocations ==
    {[chain EXCEPT !.suspended = <<>>]}
        \cup {chain.suspended[i] : i \in 1..Len(chain.suspended)}

Composed == {c \in Invocations : c.status # "none"}

OnionHolds(c) ==
    (\A i \in 1..Len(c.list) : Body(c.list[i]) = "pass") =>
        /\ IsPrefix(c.log, OnionTrace(Len(c.list), c.terminal))
        /\ (c.status = "done") => (c.log = OnionTrace(Len(c.list), c.terminal))

OwnArguments(c) ==
    \A g \in 1..Len(c.gens) :
        (c.gens[g].entry > 0) =>
            /\ c.gens[g].request = c.request
            /\ c.gens[g].response = c.response
            /\ c.gens[g].next \in 1..Len(c.gens)
            /\ c.gens[g].next # g

(* C24: two invocations composed from the same list for two requests and   *)
(* interleaved at their suspension points each keep onion ordering, each   *)
(* middleware gets its own invocation's request, response and next, and    *)
(* the list is the same for both throughout.                               *)
C24_ChainIndependence ==
    /\ \A c \in Composed : OnionHolds(c) /\ OwnArguments(c)
    /\ \A c, d \in Composed :
            /\ c.list = d.list
            /\ (c # d) => (c.request # d.request /\ c.response # d.response)

C24_Witness ==
    /\ chain.suspended # <<>>
    /\ chain.status = "running"
    /\ chain.suspended[1].status = "running"
    /\ Len(chain.list) = 2
    /\ \A i \in 1..2 : Body(chain.list[i]) = "pass"
    /\ Len(chain.log) = 1
    /\ Len(chain.suspended[1].log) = 2
    /\ chain.request = "request"

----------------------------------------------------------------------------
(* Arguments of a middleware *)

GeneratorOf(k) == CHOOSE g \in 1..Len(chain.gens) : chain.gens[g].entry = k

(* C25: every middleware of a composed chain is invoked with request,      *)
(* response, the step of the following middleware (the terminal step for   *)
(* the last) and then its own parameters in order (none for a plain        *)
(* callable), on its owner instance when it has one.                       *)
C25_ArgumentContract ==
    (chain.status \in {"running", "done"}) =>
        \A k \in 1..Len(chain.list) :
            /\ \E g \in 1..Len(chain.gens) : chain.gens[g].entry = k
            /\ LET gen == chain.gens[GeneratorOf(k)]
                   entry == chain.list[k]
               IN  /\ gen.request = chain.request
                   /\ gen.response = chain.response
                   /\ gen.next \in 1..Len(chain.gens)
                   /\ chain.gens[gen.next].entry =
                            IF k = Len(chain.list) THEN 0 ELSE k + 1
                   /\ gen.parameters =
                            IF entry.isFunction THEN <<>> ELSE entry.parameters
                   /\ gen.receiver =
                            IF entry.isFunction THEN NullStr ELSE entry.instance
                   /\ gen.method =
                            IF entry.isFunction THEN entry.fn
                            ELSE IF entry.instance # NullStr
                            THEN PropertyOf(entry.instance, entry.method)
                            ELSE entry.method

C25_Witness ==
    /\ chain.status = "running"
    /\ Len(chain.list) = 2
    /\ ~chain.list[1].isFunction
    /\ chain.list[1].instance = "Pass"
    /\ chain.list[1].parameters = <<"basic">>
    /\ chain.list[2].isFunction
    /\ chain.gens[GeneratorOf(1)].state = "delegated"
    /\ chain.gens[GeneratorOf(2)].state = "entered"

----------------------------------------------------------------------------
(* Named middleware with parameters *)

(* The text of a key after its first ':', split on ',' *)
ParamsOf(key) ==
    IF \A i \in 1..Len(key) : key[i] # Colon THEN <<>>
    ELSE LET rest == SubSeq(key, IndexOf(key, Colon) + 1, Len(key))
         IN  FilterSeq(rest, SeqToSet(rest) \ {Comma})

NamespaceOf(key) == Property(middlewareStore.namedMiddleware, BaseName(key))

(* C26: for keys whose base names are all registered, the result of        *)
(* formatNamedMiddleware holds, for every input key, the key's namespace   *)
(* with the key's own parameters, and nothing else.                        *)
C26_NamedParsing ==
    (/\ last.op = "formatNamedMiddleware"
     /\ middlewareStore.initialised
     /\ \A i \in 1..Len(last.methods) : Registered(BaseName(last.methods[i])))
    => /\ last.err = "none"
       /\ last.ret.tag = "object"
       /\ \A i \in 1..Len(last.methods) :
            <<NamespaceOf(last.methods[i]), ParamsOf(last.methods[i])>>
                \in last.ret.pairs
       /\ \A pair \in last.ret.pairs :
            \E i \in 1..Len(last.methods) :
                pair = <<NamespaceOf(last.methods[i]), ParamsOf(last.methods[i])>>

----------------------------------------------------------------------------
(* Removal by name *)

----------------------------------------------------------------------------
(* Group prefix *)

WithSlash(p) == IF p # <<>> /\ Head(p) = Slash THEN p ELSE <<Slash>> \o p

Prefixed(template, p) ==
    IF template = <<Slash>> THEN WithSlash(p) ELSE WithSlash(p) \o template

(* C28: prefix(p) changes the template of every record of the batch to p   *)
(* when it is exactly '/', and to p followed by the old template           *)
(* otherwise, recompiles each pattern from the new template and leaves the *)
(* records outside the batch unchanged.                                    *)
C28_GroupPrefix ==
    [][(last'.op = "prefix") =>
            /\ last'.err = "none"
            /\ Len(routes') = Len(routes)
            /\ \A i \in 1..Len(routes) :
                    IF routes[i] \in SeqToSet(group.routes)
                    THEN /\ Registry'[i].route = Prefixed(Registry[i].route, last'.name)
                         /\ Registry'[i].pattern = makeRoutePattern(Registry'[i].route)
                    ELSE Registry'[i] = Registry[i]]_vars

----------------------------------------------------------------------------
(* Attaching middleware *)

(* The records a middleware call is to affect *)
Targets(op) ==
    CASE op = "middleware" -> {_lastRoute(routes)}
      [] op = "Group.middleware" -> SeqToSet(group.routes)
      [] op = "Resource.middleware" -> SeqToSet(resource.routes)

(* C29: a middleware call on a route, a group or a resource appends the    *)
(* list passed, in order, to the middleware list of each affected record   *)
(* and leaves the lists of all other records as they were.                 *)
C29_MiddlewareAppend ==
    [][(/\ last'.op \in {"middleware", "Group.middleware", "Resource.middleware"}
        /\ last'.err = "none")
       => /\ DOMAIN heap' = DOMAIN heap
          /\ \A r \in DOMAIN heap :
                heap'[r].middlewares =
                    IF r \in Targets(last'.op)
                    THEN heap[r].middlewares \o last'.methods
                    ELSE heap[r].middlewares]_vars

----------------------------------------------------------------------------
(* Fluent annotation *)

FluentCalls == {"as", "middleware", "formats", "render"}

(* C30: on a non-empty registry Route.as, Route.middleware, Route.formats  *)
(* and Route.render change the most recently appended record only, in the  *)
(* field they are about, and leave every earlier record unchanged; on an   *)
(* empty registry there is no last record and nothing is registered.       *)
C30_FluentTargetsLast ==
    [][(last'.op \in FluentCalls) =>
            IF routes = <<>>
            THEN /\ _lastRoute(routes) = NoRef
                 /\ last'.err = "TypeError"
                 /\ routes' = <<>>
            ELSE LET n == Len(routes)
                     old == Registry[n]
                     new == Registry'[n]
                 IN  /\ Len(routes') = n
                     /\ SubSeq(Registry', 1, n - 1) = SubSeq(Registry, 1, n - 1)
                     /\ (last'.op = "as") => new = [old EXCEPT !.name = last'.name]
                     /\ (last'.op = "middleware") =>
                            new = [old EXCEPT !.middlewares = @ \o last'.methods]
                     /\ (last'.op = "formats") =>
                            /\ new = [old EXCEPT !.route = new.route]
                            /\ IsPrefix(old.route, new.route)
                            /\ Len(new.route) > Len(old.route)
                     /\ (last'.op = "render") =>
                            new = [old EXCEPT
                                      !.handler = renderHandler(Head(last'.name))]]_vars

C30_Witness ==
    /\ last.op = "middleware"
    /\ last.err = "none"
    /\ Len(routes) = 2
    /\ heap[routes[1]].middlewares = <<>>
    /\ heap[routes[1]].name = heap[routes[1]].route
    /\ heap[routes[2]].middlewares = <<"acl", "web">>
    /\ heap[routes[2]].name \in RouteNames
    /\ heap[routes[2]].handler = renderHandler("home")

----------------------------------------------------------------------------
(* Middleware of a resource *)

(* The middleware of an expression, in key order, that list the action *)
RECURSIVE MiddlewareFor(_, _)
MiddlewareFor(expression, action) ==
    IF expression = <<>> THEN <<>>
    ELSE (IF <<action>> \in SeqToSet(Head(expression)[2])
          THEN <<Head(expression)[1]>> ELSE <<>>)
         \o MiddlewareFor(Tail(expression), action)

(* C31: Resource.middleware with a flat list appends the list to every     *)
(* record of the resource; with a mapping from middleware to actions it    *)
(* appends each middleware to exactly the records whose action is listed.  *)
C31_ResourceMiddleware ==
    [][(last'.op = "Resource.middleware") =>
            /\ last'.err = "none"
            /\ DOMAIN heap' = DOMAIN heap
            /\ \A r \in DOMAIN heap :
                heap'[r].middlewares =
                    IF r \notin SeqToSet(resource.routes) THEN heap[r].middlewares
                    ELSE IF last'.args.tag = "expression"
                    THEN heap[r].middlewares
                            \o MiddlewareFor(last'.args.pairs, ActionOf(heap[r]))
                    ELSE heap[r].middlewares \o last'.methods]_vars

----------------------------------------------------------------------------
(* Renaming the records of a resource *)

(* The new name a rename map gives an action, or <<>> when it has none *)
RenamedTo(pairs, action) ==
    IF \E i \in 1..Len(pairs) : pairs[i][1] = <<action>>
    THEN (CHOOSE pair \in SeqToSet(pairs) : pair[1] = <<action>>)[2]
    ELSE <<>>

(* C32: Resource.as(renameMap) gives each resource record whose action is  *)
(* a key of the map the mapped name, changes nothing else, and the record  *)
(* is then found under its new name.                                       *)
C32_ResourceRename ==
    [][(last'.op = "Resource.as") =>
            /\ last'.err = "none"
            /\ DOMAIN heap' = DOMAIN heap
            /\ \A r \in DOMAIN heap :
                LET to == RenamedTo(last'.args.pairs, ActionOf(heap[r]))
                IN  IF r \in SeqToSet(resource.routes) /\ to # <<>>
                    THEN /\ heap'[r] = [heap[r] EXCEPT !.name = to]
                         /\ getRoute(heap', routes', "name", to) # NoRef
                    ELSE heap'[r] = heap[r]]_vars


----------------------------------------------------------------------------
(* Format suffixes *)

(* C33: once formats(exts, strict) has extended the template of the only   *)
(* record, a GET of the path with a listed extension resolves and carries  *)
(* the extension as params.format, the un-suffixed path resolves exactly   *)
(* when strict is false, and an extension that is not listed does not      *)
(* resolve.                                                                *)
C33_FormatSuffixes ==
    [][(last'.op = "resolve" /\ Len(routes) = 1) =>
            \A formats \in FormatLists, strict \in BOOLEAN, e \in Extensions :
                (/\ heap[routes[1]].route = PathCreate \o formatsPattern(formats, strict)
                 /\ last'.urlPath = PathCreate \o e)
                => LET resolved == last'.err = "none" /\ last'.ret.tag = "route"
                   IN  IF e = <<>> THEN resolved <=> ~strict
                       ELSE IF e[2] \in SeqToSet(formats)
                       THEN resolved /\ <<"format", e>> \in last'.ret.params
                       ELSE ~resolved]_vars


----------------------------------------------------------------------------
(* Resolving middleware for a request *)

(* The entries a list of names resolves to, each with the given parameters *)
Entries(names, parametersOf(_)) ==
    [i \in 1..Len(names) |-> makeFunc(names[i], parametersOf(i))]

(* C34: on an initialised registry Middleware.resolve(hash, includeGlobal) *)
(* returns the global middleware in registration order, each with the      *)
(* empty parameter list, when includeGlobal is true, followed by the keys  *)
(* of the hash in key order, each with the parameters the hash stores for  *)
(* it; the global list and the named table are left as they were.          *)
C34_MiddlewareResolve ==
    [][(last'.op = "Middleware.resolve" /\ middlewareStore.initialised) =>
            LET hash == last'.args.pairs
                empty(i) == <<>>
                stored(i) == hash[i][2]
            IN  /\ last'.err = "none"
                /\ last'.ret = ListValue(
                       (IF last'.args.includeGlobal
                        THEN Entries(middlewareStore.globalMiddleware, empty)
                        ELSE <<>>)
                       \o Entries(hashKeys(hash), stored))
                /\ middlewareStore' = middlewareStore]_vars


----------------------------------------------------------------------------
(* Termination of a chain *)

----------------------------------------------------------------------------
(* Default names *)

(* C36: with no call of as(...) and no resource, every record of the       *)
(* registry has in every reachable state a name equal to its current path  *)
(* template, also after its group was prefixed or given formats, and       *)
(* getRoute finds a record under each current template.                    *)
C36_DefaultName ==
    \A i \in 1..Len(routes) :
        /\ heap[routes[i]].name = heap[routes[i]].route
        /\ getRoute(heap, routes, "name", heap[routes[i]].route) # NoRef


----------------------------------------------------------------------------
(* Group tags *)

(* The group tags of the records a step has added to the registry *)
NewTags(before, after, h) ==
    [i \in 1..(Len(after) - Len(before)) |-> h[after[Len(before) + i]].group]

(* C37: the active group is null whenever no callback is running; a record *)
(* registered outside any callback has a null group; the records a group   *)
(* callback registers carry the group's name, those of a nested group the  *)
(* inner name and those the outer callback registers after the nested call *)
(* has returned the outer name.                                            *)
C37_GroupTagging ==
    [][/\ activeGroup' = NullStr
       /\ (last'.op = "get") => NewTags(routes, routes', heap') = <<NullStr>>
       /\ (last'.op = "group" /\ last'.args.tag = "none") =>
              \A i \in 1..(Len(routes') - Len(routes)) :
                  NewTags(routes, routes', heap')[i] \in GroupNames
       /\ (last'.op = "group" /\ last'.args.tag = "nested") =>
              NewTags(routes, routes', heap') =
                  [i \in 1..(last'.args.innerCount + last'.args.restCount) |->
                      IF i <= last'.args.innerCount THEN last'.args.inner
                      ELSE last'.args.outer]]_vars

----------------------------------------------------------------------------
(* Filtering a resource *)

(* C38: only(...) and except(...) on a resource leave every record of the  *)
(* router's registry in place and unaltered, whatever names those records  *)
(* carry, a name a record of the resource has included.                    *)
C38_FilterIsLocal ==
    [][(last'.op \in {"only", "except"}) => Registry' = Registry]_vars

C38_Witness ==
    /\ last.op = "only"
    /\ resource.tag = "resource"
    /\ resource.basename = <<"user">>
    /\ Len(resource.routes) = 7
    /\ Len(routes) = 2
    /\ heap[routes[1]].name = PathCreate
    /\ \E i \in 1..Len(resource.routes) :
            /\ resource.routes[i] # routes[1]
            /\ heap[resource.routes[i]].name = PathCreate


----------------------------------------------------------------------------
(* Hosts and routes without a domain *)

(* The records without a domain that a path and a verb match *)
Undomained(urlPath, verb) ==
    {i \in 1..Len(routes) :
        /\ ~Truthy(heap[routes[i]].domain)
        /\ PatternTest(heap[routes[i]].pattern, urlPath)
        /\ \E k \in 1..Len(heap[routes[i]].verb) : heap[routes[i]].verb[k] = verb}

(* C39: a request whose path and verb match a record without a domain      *)
(* resolves to a route under every host, a host that matches a domain some *)
(* group has registered included.                                          *)
C39_HostIndependence ==
    (last.op = "resolve" /\ Undomained(last.urlPath, last.verb) # {})
        => (last.err = "none" /\ last.ret.tag = "route")

============================================================================
